---- MODULE Spec2Model ----
(***************************************************************************)
(* Model of the mogilefsd-rs client (client/src/lib.rs) and of the         *)
(* in-memory tracker/storage backend (server/src/mem).                     *)
(*                                                                         *)
(* Four specifications share the module:                                   *)
(*   Spec       the client transport: MogClientTransport::do_request and   *)
(*              the ConnectionState machine, one step per I/O call;        *)
(*   LiveSpec   Spec with weak fairness on the steps of a running request  *)
(*              (every I/O call returns, with success or with an error);   *)
(*   ParseSpec  the pure function response_from_bytes on bounded inputs;   *)
(*   StoreSpec  MogClient::store_data run by several clients against one   *)
(*              shared in-memory backend.                                  *)
(***************************************************************************)
EXTENDS Integers, Sequences, FiniteSets, TLC

VARIABLES
    \* ---- client transport (client/src/lib.rs) ----
    hosts,        \* MogClientTransport.hosts: sequence of tracker addresses
    health,       \* environment: how each tracker address behaves
    stream,       \* MogClientTransport.stream: Option<ConnectionState>
    pc,           \* position of the running do_request ("idle" when none)
    cur,          \* do_request's local `stream`
    tries,        \* do_request's local `tries`
    resp_line,    \* do_request's local `resp_line`
    result,       \* what the last finished do_request returned
    attempts,     \* history: one record per loop iteration of this request
    prev,         \* history: kind of result and stored stream the previous request left
    nreq,         \* number of requests started so far
    \* ---- response_from_bytes on its own ----
    pin,          \* the input bytes
    pout,         \* the value returned for pin ("none" before the call)
    \* ---- in-memory backend and store_data ----
    domains,      \* MemBackend.domains: domain name -> MemDomain
    tracker,      \* environment: "mem" (the in-memory backend) or "foreign"
    sd,           \* the running MogClient::store_data call and its locals
    sent,         \* history: what this store_data put on the wire, in order
    interfered,   \* history: another client touched the key being stored
    \* ---- the backend driven call by call ----
    call,         \* history: the last backend call, its arguments and result
    pager,        \* a client paging through list_keys with next_after
    rq,           \* a client's logical request against the tracker, attempt by attempt
    \* ---- the server: connection handlers sharing one SyncMemBackend ----
    conns,        \* per connection: the handler's position, input and output
    lock,         \* the RwLock of SyncMemBackend: its writer and its readers
    lin,          \* history: the backend as the operations took effect in order
    threads,      \* per handler thread: its backend operation and how far it is
    \* ---- MogClient::request's metrics sink ----
    stats         \* MogClient.statsd: configured or not, and what it received

clientVars == <<hosts, health, stream, pc, cur, tries, resp_line, result,
                attempts, prev, nreq>>
parseVars  == <<pin, pout>>
storeVars  == <<domains, tracker, sd, sent, interfered>>
backendVars == <<call, pager, rq>>
serverVars == <<conns, lock, lin, threads>>
metricVars == <<stats>>
vars       == <<clientVars, parseVars, storeVars, backendVars, serverVars,
                metricVars>>

(***************************************************************************)
(* Bounds                                                                  *)
(***************************************************************************)
MaxRequests == 2
MaxLen == 4

(***************************************************************************)
(* Bytes.  A byte string is a sequence of one-byte tokens.                 *)
(***************************************************************************)
SP == " "
CR == "CR"
LF == "LF"
CRLF == <<CR, LF>>

RECURSIVE IndexOf(_, _, _)
\* position of the first b in s at or after i, 0 when there is none
IndexOf(s, b, i) ==
    IF i > Len(s) THEN 0
    ELSE IF s[i] = b THEN i
    ELSE IndexOf(s, b, i + 1)

ends_with(s, suffix) ==
    /\ Len(s) >= Len(suffix)
    /\ SubSeq(s, Len(s) - Len(suffix) + 1, Len(s)) = suffix

\* bytes.splitn(2, |b| b == b' '): the part before the first space, and the rest
SplitOp(bytes) ==
    LET i == IndexOf(bytes, SP, 1)
    IN  IF i = 0 THEN bytes ELSE SubSeq(bytes, 1, i - 1)

SplitArgs(bytes) ==
    LET i == IndexOf(bytes, SP, 1)
    IN  IF i = 0 THEN <<>> ELSE SubSeq(bytes, i + 1, Len(bytes))

HexDigits == {"2", "B"}

\* the byte a %XY escape stands for
HexByte(h1, h2) ==
    IF h1 = "2" /\ h2 = "B" THEN "+"
    ELSE IF h1 = "2" /\ h2 = "2" THEN "DQUOTE"
    ELSE IF h1 = "B" /\ h2 = "2" THEN "0xB2"
    ELSE "0xBB"

RECURSIVE percent_decode(_)
\* url::percent_encoding::percent_decode: %XY with two hex digits becomes one
\* byte, every other byte (a lone % included) is copied
percent_decode(bs) ==
    IF bs = <<>> THEN <<>>
    ELSE IF /\ bs[1] = "%"
            /\ Len(bs) >= 3
            /\ bs[2] \in HexDigits
            /\ bs[3] \in HexDigits
         THEN <<HexByte(bs[2], bs[3])>> \o percent_decode(SubSeq(bs, 4, Len(bs)))
         ELSE <<bs[1]>> \o percent_decode(Tail(bs))

\* decode_utf8_lossy: a byte that is not valid UTF-8 becomes U+FFFD
decode_utf8_lossy(bs) ==
    [i \in 1..Len(bs) |-> IF bs[i] \in {"0xB2", "0xBB"} THEN "U+FFFD" ELSE bs[i]]

\* str::replace("+", " ")
replace_plus(s) ==
    [i \in 1..Len(s) |-> IF s[i] = "+" THEN SP ELSE s[i]]

OKTok  == <<"O", "K">>
ERRTok == <<"E", "R", "R">>

response_from_bytes_keeps_plus(bytes) ==
    LET op   == SplitOp(bytes)
        args == SplitArgs(bytes)
    IN  IF op = OKTok THEN [kind |-> "Ok", payload |-> args]
        ELSE IF op = ERRTok THEN [kind |-> "TrackerErr", payload |-> args]
        ELSE [kind |-> "Other",
              payload |-> decode_utf8_lossy(percent_decode(op))]
\* client/src/lib.rs:186 response_from_bytes.  The typed parsers
\* request.response_from_bytes and MogError::from_bytes are kept abstract:
\* the value records the variant and the argument bytes handed to them.
response_from_bytes(bytes) ==
    LET op   == SplitOp(bytes)
        args == SplitArgs(bytes)
    IN  IF op = OKTok THEN [kind |-> "Ok", payload |-> args]
        ELSE IF op = ERRTok THEN [kind |-> "TrackerErr", payload |-> args]
        ELSE [kind |-> "Other",
              payload |-> replace_plus(decode_utf8_lossy(percent_decode(op)))]

(***************************************************************************)
(* ConnectionState (client/src/lib.rs:205-306).  A value has a kind, the   *)
(* peer of a live connection and the io::Error an Error state holds.  An   *)
(* io::Error is identified by the attempt and the call that raised it.     *)
(***************************************************************************)
NoErr == [attempt |-> 0, stage |-> "none"]
IoErr(n, stage) == [attempt |-> n, stage |-> stage]

None == [kind |-> "None", peer |-> "none", err |-> NoErr]
NoConnection == [kind |-> "NoConnection", peer |-> "none", err |-> NoErr]
Connected(addr) == [kind |-> "Connected", peer |-> addr, err |-> NoErr]
Error(e) == [kind |-> "Error", peer |-> "none", err |-> e]

\* ConnectionState::new
new_state == NoConnection

\* ConnectionState::is_connected; MogClientTransport::is_connected on the
\* stored Option (None is not connected)
is_connected(s) == s.kind = "Connected"

\* MogClient::peer_addr: the stored state's peer, "none" for Option::None
peer_addr(s) == IF s.kind = "Connected" THEN s.peer ELSE "none"

take_err_keep(s) == [state |-> s, err |-> s.err]
take_err_drop(s) == [state |-> NoConnection, err |-> s.err]
\* ConnectionState::take_err
take_err(s) ==
    IF s.kind = "Error" THEN [state |-> NoConnection, err |-> s.err]
    ELSE [state |-> s, err |-> NoErr]

connect_keeps_error(s, addr, ok, e) ==
    IF s.kind \in {"Connected", "Error"} THEN s
    ELSE IF ok THEN Connected(addr) ELSE Error(e)
\* ConnectionState::connect; ok and e are what TcpStream::connect returns
connect(s, addr, ok, e) ==
    IF s.kind = "Connected" THEN s
    ELSE IF ok THEN Connected(addr) ELSE Error(e)

\* ConnectionState::write_and_flush; ok and e are what write_all+flush returns
write_and_flush(s, ok, e) ==
    IF s.kind # "Connected" THEN s
    ELSE IF ok THEN s ELSE Error(e)

\* ConnectionState::read_until_mb; ok and e are what the buffered read returns
read_until_mb(s, ok, e) ==
    IF s.kind # "Connected" THEN s
    ELSE IF ok THEN s ELSE Error(e)

(***************************************************************************)
(* The environment: tracker addresses and what I/O against them does.      *)
(***************************************************************************)
T1 == "t1"
T2 == "t2"
Trackers == {T1, T2}

\* health[t] is "refusing" (every connection is refused), "healthy" (no
\* I/O call fails and the request is answered) or "flaky" (anything happens)
OKLine   == <<"O", "K", SP, CR, LF>>
ErrLine  == <<"E", "R", "R", SP, "x", CR, LF>>
JunkLine == <<"x", CR, LF>>

ConnectOutcomes(t) ==
    IF health[t] = "refusing" THEN {FALSE}
    ELSE IF health[t] = "healthy" THEN {TRUE}
    ELSE BOOLEAN

WriteOutcomes(t) ==
    IF health[t] = "healthy" THEN {TRUE} ELSE BOOLEAN

\* a read returns a whole line, or fails after delivering part of one
ReadOutcomes(t) ==
    IF health[t] = "healthy" THEN {[ok |-> TRUE, bytes |-> OKLine]}
    ELSE {[ok |-> TRUE, bytes |-> l] : l \in {OKLine, ErrLine, JunkLine}}
         \cup {[ok |-> FALSE, bytes |-> b] : b \in {<<>>, <<"O">>}}

(***************************************************************************)
(* MogClientTransport (client/src/lib.rs:120-184)                          *)
(***************************************************************************)
NoResult == [kind |-> "none", payload |-> <<>>]

random_tracker_addr_default(hs) ==
    IF hs = <<>> THEN {T1} ELSE {hs[i] : i \in 1..Len(hs)}
\* MogClientTransport::random_tracker_addr: the addresses rand::sample may
\* return, or the NoTrackers error when the list is empty
random_tracker_addr(hs) ==
    IF hs = <<>> THEN {"NoTrackers"} ELSE {hs[i] : i \in 1..Len(hs)}

LoopBreak_off_by_one(s, n) == is_connected(s) \/ n >= 4
LoopBreak_ignores_connected(s, n) == n >= 3
\* do_request line 166: if stream.is_connected() || tries >= 3 { break; }
LoopBreak(s, n) == is_connected(s) \/ n >= 3

\* do_request lines 176-179: a trailing CRLF is cut off before parsing
strip_crlf(line) ==
    IF ends_with(line, CRLF) THEN SubSeq(line, 1, Len(line) - 2) ELSE line

NewAttempt(start, picked, conn) ==
    [start |-> start, picked |-> picked, conn |-> conn,
     write |-> "pending", read |-> "pending", bytes |-> <<>>]

SetLast(seq, field, val) ==
    [seq EXCEPT ![Len(seq)] = [@ EXCEPT ![field] = val]]

\* do_request line 148: take the stored state, NoConnection when there is none
statsd_incr_with_attempts(st) ==
    IF st.sink THEN [st EXCEPT !.incr = @ + 1 + Len(attempts)] ELSE st
\* MogClient::request: if let Some(s) = self.statsd { s.incr(requests.<op>) }
statsd_incr(st) == IF st.sink THEN [st EXCEPT !.incr = @ + 1] ELSE st
\* ... s.timer(request_timing.<op>, t1 - t0) once do_request has returned
statsd_timer(st) == IF st.sink THEN [st EXCEPT !.timer = @ + 1] ELSE st

Begin ==
    /\ pc = "idle"
    /\ nreq < MaxRequests
    /\ cur' = IF stream.kind = "None" THEN new_state ELSE stream
    /\ stream' = None
    /\ resp_line' = <<>>
    /\ tries' = 0
    /\ attempts' = <<>>
    /\ prev' = [kind |-> result.kind, stream |-> stream]
    /\ result' = NoResult
    /\ nreq' = nreq + 1
    /\ pc' = "top"
    /\ stats' = statsd_incr([stats EXCEPT !.base = stats.incr])
    /\ UNCHANGED <<hosts, health, parseVars, storeVars, backendVars,
                 serverVars>>

\* do_request line 154, the loop top with a live connection: nothing is picked
AlreadyConnected ==
    /\ pc = "top"
    /\ is_connected(cur)
    /\ attempts' = Append(attempts, NewAttempt(cur.kind, "none", "none"))
    /\ pc' = "write"
    /\ UNCHANGED <<hosts, health, stream, cur, tries, resp_line, result, prev,
                   nreq, parseVars, storeVars, backendVars,
                 serverVars, metricVars>>

\* do_request lines 154-158: pick a tracker (try! returns NoTrackers, leaving
\* the stored state taken) and connect to it
PickAndConnect ==
    /\ pc = "top"
    /\ ~is_connected(cur)
    /\ \E t \in random_tracker_addr(hosts) :
         IF t = "NoTrackers"
         THEN /\ result' = [kind |-> "NoTrackers", payload |-> <<>>]
              /\ pc' = "idle"
              /\ cur' = None
              /\ stats' = statsd_timer(stats)
              /\ UNCHANGED attempts
         ELSE \E ok \in ConnectOutcomes(t) :
              /\ cur' = connect(cur, t, ok, IoErr(tries + 1, "connect"))
              /\ attempts' = Append(attempts,
                     NewAttempt(cur.kind, t, IF ok THEN "ok" ELSE "fail"))
              /\ pc' = "write"
              /\ UNCHANGED <<result, stats>>
    /\ UNCHANGED <<hosts, health, stream, tries, resp_line, prev, nreq, parseVars, storeVars,
                 backendVars, serverVars>>

\* do_request line 161
Write ==
    /\ pc = "write"
    /\ \E ok \in (IF is_connected(cur) THEN WriteOutcomes(cur.peer) ELSE {TRUE}) :
         /\ cur' = write_and_flush(cur, ok, IoErr(tries + 1, "write"))
         /\ attempts' = SetLast(attempts, "write",
                IF ~is_connected(cur) THEN "skipped"
                ELSE IF ok THEN "ok" ELSE "fail")
    /\ pc' = "read"
    /\ UNCHANGED <<hosts, health, stream, tries, resp_line, result, prev, nreq,
                   parseVars, storeVars, backendVars,
                 serverVars, metricVars>>

\* do_request lines 162-166: read, count the attempt, leave the loop or go round
Read ==
    /\ pc = "read"
    /\ \E io \in (IF is_connected(cur) THEN ReadOutcomes(cur.peer)
                  ELSE {[ok |-> TRUE, bytes |-> <<>>]}) :
         /\ cur' = read_until_mb(cur, io.ok, IoErr(tries + 1, "read"))
         /\ resp_line' = IF is_connected(cur) THEN resp_line \o io.bytes
                         ELSE resp_line
         /\ attempts' = SetLast(SetLast(attempts, "read",
                                 IF ~is_connected(cur) THEN "skipped"
                                 ELSE IF io.ok THEN "ok" ELSE "fail"),
                         "bytes", IF is_connected(cur) THEN io.bytes ELSE <<>>)
         /\ tries' = tries + 1
         /\ pc' = IF LoopBreak(cur', tries') THEN "harvest" ELSE "top"
    /\ UNCHANGED <<hosts, health, stream, result, prev, nreq, parseVars, storeVars,
                 backendVars, serverVars, metricVars>>

\* do_request lines 170-182: harvest the error, store the state back, return
Finish ==
    /\ pc = "harvest"
    /\ LET te == take_err(cur)
       IN  /\ stream' = te.state
           /\ result' = IF te.err # NoErr
                        THEN [kind |-> "Io", payload |-> te.err]
                        ELSE response_from_bytes(strip_crlf(resp_line))
    /\ cur' = None
    /\ pc' = "idle"
    /\ stats' = statsd_timer(stats)
    /\ UNCHANGED <<hosts, health, tries, resp_line, attempts, prev, nreq,
                   parseVars, storeVars, backendVars,
                 serverVars>>

\* the configurations explored: no tracker, one tracker, and two trackers of
\* which the first refuses or is flaky and the second is healthy or flaky
Configs ==
    {[hosts |-> <<>>, health |-> [t \in Trackers |-> "healthy"]],
     [hosts |-> <<T1>>, health |-> [t \in Trackers |-> "flaky"]]}
    \cup {[hosts |-> <<T1, T2>>,
           health |-> [t \in Trackers |-> IF t = T1 THEN h1 ELSE h2]] :
             h1 \in {"refusing", "flaky"}, h2 \in {"healthy", "flaky"}}

(***************************************************************************)
(* The in-memory backend (server/src/mem/model.rs, mem_backend.rs).        *)
(* An Option is a sequence: <<>> is None and <<v>> is Some(v).  A map is   *)
(* a function on the set of its keys.  A backend operation takes the       *)
(* domains map and returns the new map with the result.                    *)
(***************************************************************************)
EmptyMap == [x \in {} |-> x]

MapInsert(m, k, v) == [x \in DOMAIN m \cup {k} |-> IF x = k THEN v ELSE m[x]]
MapRemove(m, k) == [x \in DOMAIN m \ {k} |-> m[x]]

Ok(b, v) == [b |-> b, ok |-> TRUE, err |-> "none", val |-> v]
Err(b, kind) == [b |-> b, ok |-> FALSE, err |-> kind, val |-> <<>>]

\* MemFileInfo::new
MemFileInfo_new(fid, key) ==
    [fid |-> fid, key |-> key, content |-> <<>>, size |-> <<>>, mtime |-> <<>>]

\* MemDomain::new
MemDomain_new(name) == [name |-> name, files |-> EmptyMap]

\* MemBackend.empty_domain
empty_domain == MemDomain_new("")

\* MemBackend::domain: the named domain, the empty one when it is not there
domain(b, d) == IF d \in DOMAIN b THEN b[d] ELSE empty_domain

\* MemBackend::domain_mut: entry(..).or_insert(..) registers a missing domain
domain_mut(b, d) == IF d \in DOMAIN b THEN b ELSE MapInsert(b, d, MemDomain_new(d))

\* MemBackend::file
file(b, d, k) ==
    LET fs == domain(b, d).files
    IN  IF k \in DOMAIN fs THEN <<fs[k]>> ELSE <<>>

\* the path segments of the storage base URL, and key.split("/")
BaseSegments == <<"base_path">>
KeySegments(k) == IF k = "a/b" THEN <<"a", "b">> ELSE <<k>>

RECURSIVE SkipEmpty(_)
\* into_iter().skip_while(|p| p.is_empty())
SkipEmpty(segs) ==
    IF segs # <<>> /\ segs[1] = "" THEN SkipEmpty(Tail(segs)) ELSE segs

\* mem_backend.rs url_for_key: the path of the URL (scheme and authority are
\* those of the base URL)
url_for_key(d, k) == SkipEmpty(BaseSegments \o <<"d", d, "k">> \o KeySegments(k))

\* create_domain, were it to insert without looking
create_domain_overwrites(b, d) == Ok(MapInsert(b, d, MemDomain_new(d)), d)

\* MemBackend::create_domain
create_domain(b, d) ==
    IF d \in DOMAIN b THEN Err(b, "domain_exists")
    ELSE Ok(MapInsert(b, d, MemDomain_new(d)), d)

\* create_open in the strict mode the commented-out lines of domain_mut had
create_open_strict(b, d, k) ==
    LET fid == Cardinality(DOMAIN b) + 1
    IN  IF d \notin DOMAIN b THEN Err(b, "unreg_domain")
        ELSE Ok([b EXCEPT ![d].files = MapInsert(@, k, MemFileInfo_new(fid, k))],
                [fid |-> fid, paths |-> <<[devid |-> 1, url |-> url_for_key(d, k)]>>])

\* create_open, were add_file to keep an entry already there
create_open_keeps_existing(b, d, k) ==
    LET fid == Cardinality(DOMAIN b) + 1
        b1  == domain_mut(b, d)
        b2  == IF k \in DOMAIN b1[d].files THEN b1
               ELSE [b1 EXCEPT ![d].files = MapInsert(@, k, MemFileInfo_new(fid, k))]
    IN  Ok(b2, [fid |-> fid, paths |-> <<[devid |-> 1, url |-> url_for_key(d, k)]>>])

\* MemBackend::create_open with MemDomain::add_file: the fid is taken from
\* the number of domains before the domain is looked up
create_open(b, d, k) ==
    LET fid == Cardinality(DOMAIN b) + 1
        b1  == domain_mut(b, d)
        b2  == [b1 EXCEPT ![d].files = MapInsert(@, k, MemFileInfo_new(fid, k))]
    IN  Ok(b2, [fid |-> fid, paths |-> <<[devid |-> 1, url |-> url_for_key(d, k)]>>])

\* delete, were a missing key not reported
delete_lenient(b, d, k) ==
    LET b1 == domain_mut(b, d)
    IN  Ok([b1 EXCEPT ![d].files = MapRemove(@, k)], <<>>)

\* MemBackend::delete with MemDomain::remove_file
delete(b, d, k) ==
    LET b1 == domain_mut(b, d)
    IN  IF k \in DOMAIN b1[d].files
        THEN Ok([b1 EXCEPT ![d].files = MapRemove(@, k)], <<>>)
        ELSE Err(b1, "unknown_key")

\* rename, were the key field of the record left as it was
rename_keeps_key(b, d, from, to) ==
    LET b1 == domain_mut(b, d)
        fs == b1[d].files
    IN  IF to \in DOMAIN fs THEN Err(b1, "key_exists")
        ELSE IF from \notin DOMAIN fs THEN Err(b1, "unknown_key")
        ELSE Ok([b1 EXCEPT ![d].files = MapInsert(MapRemove(fs, from), to, fs[from])],
                <<>>)

\* rename, were `from` looked up before `to`
rename_checks_from_first(b, d, from, to) ==
    LET b1 == domain_mut(b, d)
        fs == b1[d].files
    IN  IF from \notin DOMAIN fs THEN Err(b1, "unknown_key")
        ELSE IF to \in DOMAIN fs THEN Err(b1, "key_exists")
        ELSE Ok([b1 EXCEPT ![d].files =
                    MapInsert(MapRemove(fs, from), to, [fs[from] EXCEPT !.key = to])],
                <<>>)

\* MemBackend::rename with MemDomain::rename
rename(b, d, from, to) ==
    LET b1 == domain_mut(b, d)
        fs == b1[d].files
    IN  IF to \in DOMAIN fs THEN Err(b1, "key_exists")
        ELSE IF from \notin DOMAIN fs THEN Err(b1, "unknown_key")
        ELSE Ok([b1 EXCEPT ![d].files =
                    MapInsert(MapRemove(fs, from), to, [fs[from] EXCEPT !.key = to])],
                <<>>)

store_bytes_content_no_size(b, d, k, content, now) ==
    LET b1 == domain_mut(b, d)
    IN  IF k \notin DOMAIN b1[d].files THEN Err(b1, "unknown_key")
        ELSE Ok([b1 EXCEPT ![d].files[k] =
                    [@ EXCEPT !.content = <<content>>, !.mtime = <<now>>]],
                <<>>)
\* MemBackend::store_bytes_content (store_reader_content reads the whole
\* reader and calls it); now is time::now_utc()
store_bytes_content(b, d, k, content, now) ==
    LET b1 == domain_mut(b, d)
    IN  IF k \notin DOMAIN b1[d].files THEN Err(b1, "unknown_key")
        ELSE Ok([b1 EXCEPT ![d].files[k] =
                    [@ EXCEPT !.size = <<Len(content)>>,
                              !.content = <<content>>,
                              !.mtime = <<now>>]],
                <<>>)

\* MemBackend::get_content
get_content(b, d, k) ==
    LET f == file(b, d, k)
    IN  IF f = <<>> THEN Err(b, "unknown_key")
        ELSE IF f[1].content = <<>> THEN Err(b, "no_content")
        ELSE Ok(b, f[1].content[1])

\* MemBackend::file_info
file_info(b, d, k) ==
    LET f == file(b, d, k)
    IN  IF f = <<>> THEN Err(b, "unknown_key")
        ELSE Ok(b, [fid |-> f[1].fid, devcount |-> 1,
                    length |-> IF f[1].size = <<>> THEN 0 ELSE f[1].size[1],
                    domain |-> d, class |-> "default", key |-> f[1].key])

\* an error that carries a name, as MogError::UnknownKey(key) does
ErrWith(b, kind, what) == [b |-> b, ok |-> FALSE, err |-> kind, val |-> <<what>>]

\* get_paths, were a domain that was never created an error of its own
get_paths_unreg(b, d, k) ==
    IF d \notin DOMAIN b THEN ErrWith(b, "unreg_domain", d)
    ELSE IF file(b, d, k) = <<>> THEN ErrWith(b, "unknown_key", k)
    ELSE Ok(b, <<url_for_key(d, k)>>)

\* MemBackend::get_paths
get_paths(b, d, k) ==
    IF file(b, d, k) = <<>> THEN ErrWith(b, "unknown_key", k)
    ELSE Ok(b, <<url_for_key(d, k)>>)

\* MemBackend::file_metadata (the storage capability)
file_metadata(b, d, k) ==
    LET f == file(b, d, k)
    IN  IF f = <<>> THEN ErrWith(b, "unknown_key", k)
        ELSE IF f[1].size # <<>> /\ f[1].mtime # <<>>
        THEN Ok(b, [size |-> f[1].size[1], mtime |-> f[1].mtime[1]])
        ELSE ErrWith(b, "no_content", k)

\* str <= str: bytewise lexicographic order; a key is its sequence of bytes
LexLeq(a, b) ==
    \E n \in 0..Len(a) :
      /\ n <= Len(b)
      /\ SubSeq(a, 1, n) = SubSeq(b, 1, n)
      /\ \/ n = Len(a)
         \/ n < Len(b) /\ a[n + 1] < b[n + 1]

\* str::starts_with
starts_with(k, p) == Len(p) <= Len(k) /\ SubSeq(k, 1, Len(p)) = p

\* MemDomain::files: the BTreeMap iterates its keys in ascending order
SortedKeys(S) ==
    LET rank == [k \in S |-> Cardinality({j \in S : LexLeq(j, k)})]
    IN  [i \in 1..Cardinality(S) |-> CHOOSE k \in S : rank[k] = i]

\* Iterator::skip_while(|k| k <= after): drops the leading run only
skip_while_leq(seq, after) ==
    LET keep == {i \in 1..Len(seq) : ~LexLeq(seq[i], after)}
    IN  IF keep = {} THEN <<>>
        ELSE SubSeq(seq, CHOOSE i \in keep : \A j \in keep : i <= j, Len(seq))

\* Iterator::take
take(seq, n) == SubSeq(seq, 1, IF n < Len(seq) THEN n ELSE Len(seq))

\* Option::unwrap_or
unwrap_or(opt, default) == IF opt = <<>> THEN default ELSE opt[1]

\* the limit of a list_keys request that names none
DefaultLimit == 1000

\* MemBackend::list_keys
list_keys(b, d, prefix, after, limit) ==
    LET after_key == unwrap_or(after, <<>>)
        prefix_   == unwrap_or(prefix, <<>>)
        limit_    == unwrap_or(limit, DefaultLimit)
        matching  == SelectSeq(SortedKeys(DOMAIN domain(b, d).files),
                               LAMBDA k : starts_with(k, prefix_))
    IN  Ok(b, take(skip_while_leq(matching, after_key), limit_))

\* SyncMemBackend::create_close: nothing to do
create_close_finalises(b, d, k) ==
    IF k \in DOMAIN domain(b, d).files
    THEN Ok([b EXCEPT ![d].files[k] =
                [@ EXCEPT !.size = <<0>>, !.content = << <<>> >>, !.mtime = <<1>>]], <<>>)
    ELSE Ok(b, <<>>)
create_close(b, d, k) == Ok(b, <<>>)

(***************************************************************************)
(* The dispatcher (server/src/net/tracker/mod.rs): what it makes of a      *)
(* backend result.  A response is its list of <<name, value>> arguments.  *)
(***************************************************************************)
\* format!("devid_{}", i+1) and the like
Numbered(prefix, i) ==
    CASE prefix = "devid_" -> <<"devid_1", "devid_2">>[i]
      [] prefix = "path_"  -> <<"path_1", "path_2">>[i]
      [] prefix = "path"   -> <<"path1", "path2">>[i]

RECURSIVE Flatten(_)
Flatten(ss) == IF ss = <<>> THEN <<>> ELSE Head(ss) \o Flatten(Tail(ss))

\* the URLs the dispatcher receives from the backend's create_open
Urls(paths) == [i \in 1..Len(paths) |-> paths[i].url]

\* Tracker::create_open
Tracker_create_open(r) ==
    IF ~r.ok THEN [ok |-> FALSE, err |-> r.err, args |-> <<>>]
    ELSE LET urls == Urls(r.val.paths)
         IN  [ok |-> TRUE, err |-> "none",
              args |-> <<<<"dev_count", Len(urls)>>>> \o
                       Flatten([i \in 1..Len(urls) |->
                                  << <<Numbered("devid_", i), i>>,
                                     <<Numbered("path_", i), urls[i]>> >>])]

\* Tracker::get_paths
Tracker_get_paths(r) ==
    IF ~r.ok THEN [ok |-> FALSE, err |-> r.err, args |-> <<>>]
    ELSE [ok |-> TRUE, err |-> "none",
          args |-> <<<<"paths", Len(r.val)>>>> \o
                   [i \in 1..Len(r.val) |-> <<Numbered("path", i), r.val[i]>>]]

\* Tracker::rename and Tracker::delete: an empty response, or the error
Tracker_empty(r) ==
    IF ~r.ok THEN [ok |-> FALSE, err |-> r.err, args |-> <<>>]
    ELSE [ok |-> TRUE, err |-> "none", args |-> <<>>]

\* usize::from_str_radix(lim, 10): the text of a limit argument either
\* parses to a number or does not
Parses(n) == [valid |-> TRUE, n |-> n]
Unparsable == [valid |-> FALSE, n |-> 0]

\* Tracker::list_keys line 136: the limit handed to the backend
TrackerLimit(args) ==
    IF args.limit = <<>> THEN <<>>
    ELSE IF args.limit[1].valid THEN <<args.limit[1].n>>
    ELSE <<DefaultLimit>>

\* Tracker::list_keys.  args holds the Option of each argument of the
\* request; the prefix given to the backend is None.
Tracker_list_keys(b, args) ==
    IF args.domain = <<>> THEN [ok |-> FALSE, err |-> "no_domain"]
    ELSE LET keys == list_keys(b, args.domain[1], <<>>, args.after,
                               TrackerLimit(args)).val
         IN  [ok |-> TRUE, err |-> "none",
              key_count |-> Len(keys),
              key |-> keys,
              next_after |-> IF Len(keys) = 0 THEN <<>> ELSE <<keys[Len(keys)]>>]

\* what the dispatcher did with a request: the backend afterwards, whether
\* a backend method was called, and the result
Refused(b, kind) == [b |-> b, called |-> FALSE, ok |-> FALSE, err |-> kind]
Answered(r) == [b |-> r.b, called |-> TRUE, ok |-> r.ok, err |-> r.err]

\* domain_and_key: args.get("domain") and args.get("key"), Some or None
domain_and_key(args) ==
    IF args.domain = <<>> THEN [ok |-> FALSE, err |-> "no_domain"]
    ELSE IF args.key = <<>> THEN [ok |-> FALSE, err |-> "no_key"]
    ELSE [ok |-> TRUE, err |-> "none", domain |-> args.domain[1], key |-> args.key[1]]

\* Tracker::handle: the match on request.op and the method it selects.  For
\* list_keys only the argument check and the call are kept here (the
\* response is Tracker_list_keys).
Tracker_handle(cmd, b, args) ==
    LET dk == domain_and_key(args)
    IN  CASE cmd = "create_domain" ->
               IF args.domain = <<>> THEN Refused(b, "no_domain")
               ELSE Answered(create_domain(b, args.domain[1]))
          [] cmd = "create_open" ->
               IF ~dk.ok THEN Refused(b, dk.err)
               ELSE Answered(create_open(b, dk.domain, dk.key))
          [] cmd = "create_close" ->
               [b |-> b, called |-> FALSE, ok |-> TRUE, err |-> "none", args |-> <<>>]
          [] cmd = "get_paths" ->
               IF ~dk.ok THEN Refused(b, dk.err)
               ELSE Answered(get_paths(b, dk.domain, dk.key))
          [] cmd = "file_info" ->
               IF ~dk.ok THEN Refused(b, dk.err)
               ELSE Answered(file_info(b, dk.domain, dk.key))
          [] cmd = "rename" ->
               IF args.domain = <<>> THEN Refused(b, "no_domain")
               ELSE IF args.from_key = <<>> THEN Refused(b, "no_key")
               ELSE IF args.to_key = <<>> THEN Refused(b, "no_key")
               ELSE Answered(rename(b, args.domain[1], args.from_key[1], args.to_key[1]))
          [] cmd = "updateclass" ->
               [b |-> b, called |-> FALSE, ok |-> TRUE, err |-> "none", args |-> <<>>]
          [] cmd = "delete" ->
               IF ~dk.ok THEN Refused(b, dk.err)
               ELSE Answered(delete(b, dk.domain, dk.key))
          [] cmd = "list_keys" ->
               IF args.domain = <<>> THEN Refused(b, "no_domain")
               ELSE [b |-> b, called |-> TRUE, ok |-> TRUE, err |-> "none"]
          [] cmd = "noop" ->
               [b |-> b, called |-> FALSE, ok |-> TRUE, err |-> "none", args |-> <<>>]

(***************************************************************************)
(* The line protocol of the server (tracker/message.rs) and the            *)
(* connection handler (tracker/threaded.rs).  A request line is a          *)
(* sequence of byte runs; SP is the one byte that Request::from_bytes      *)
(* splits on.                                                              *)
(***************************************************************************)
NonUtf8 == {"0xFF"}

\* bytes.split(|c| c == b' '): the runs between spaces, at least one
RECURSIVE split_sp(_)
split_sp(bytes) ==
    LET i == IndexOf(bytes, SP, 1)
    IN  IF i = 0 THEN << bytes >>
        ELSE << SubSeq(bytes, 1, i - 1) >> \o split_sp(SubSeq(bytes, i + 1, Len(bytes)))

\* str::from_utf8 of one run
from_utf8(run) == [ok |-> \A i \in 1..Len(run) : run[i] \notin NonUtf8, s |-> run]

Command_from_optional_bytes_lenient(tok) ==
    IF tok = <<>> THEN [ok |-> FALSE, err |-> "unknown_command"]
    ELSE LET u == from_utf8(tok[1])
         IN  IF ~u.ok THEN [ok |-> FALSE, err |-> "utf8"]
             ELSE IF u.s = <<"create_open">> THEN [ok |-> TRUE, err |-> "none", op |-> "create_open"]
             ELSE [ok |-> TRUE, err |-> "none", op |-> "noop"]
\* Command::from_optional_bytes: tok is None (<<>>) or Some(run) (<<run>>)
Command_from_optional_bytes(tok) ==
    IF tok = <<>> THEN [ok |-> FALSE, err |-> "unknown_command"]
    ELSE LET u == from_utf8(tok[1])
         IN  IF ~u.ok THEN [ok |-> FALSE, err |-> "utf8"]
             ELSE IF u.s = <<"create_open">> THEN [ok |-> TRUE, err |-> "none", op |-> "create_open"]
             ELSE IF u.s = <<"noop">> THEN [ok |-> TRUE, err |-> "none", op |-> "noop"]
             ELSE [ok |-> FALSE, err |-> "unknown_command"]

NoArgs == [domain |-> <<>>, key |-> <<>>, from_key |-> <<>>, to_key |-> <<>>]

\* form_urlencoded::parse of the argument run, then args_hash: the pairs a
\* run holds.  It never fails; a run without a usable pair gives no
\* domain and no key.
form_urlencoded_parse(run) ==
    IF run = <<"domain=td&key=a">>
    THEN [NoArgs EXCEPT !.domain = <<"td">>, !.key = <<"a">>]
    ELSE NoArgs

\* Request::from_bytes
Request_from_bytes(bytes) ==
    LET toks == split_sp(bytes)
        command == Command_from_optional_bytes(<< toks[1] >>)
    IN  IF ~command.ok THEN [ok |-> FALSE, err |-> command.err]
        ELSE [ok |-> TRUE, err |-> "none", op |-> command.op,
              args |-> form_urlencoded_parse(IF Len(toks) >= 2 THEN toks[2] ELSE <<>>)]

\* Tracker::handle_bytes and Response::from: parse, then dispatch; an
\* error of either becomes the ERR response
handle_bytes(b, bytes) ==
    LET req == Request_from_bytes(bytes)
    IN  IF ~req.ok THEN Refused(b, req.err)
        ELSE Tracker_handle(req.op, b, req.args)

\* handle_connection: a trailing carriage return is popped off the line
pop_cr(line) ==
    IF Len(line) > 0 /\ line[Len(line)] = CR THEN SubSeq(line, 1, Len(line) - 1)
    ELSE line

next_line_newest(conn) == Len(conn.input)
\* reader.split(b'\n'): the iterator yields the lines in the order received
next_line(conn) == conn.nread + 1

(***************************************************************************)
(* MogClient::store_data (client/src/lib.rs:73-109) against a tracker and  *)
(* its storage node, with other clients using the same backend.            *)
(***************************************************************************)
StoreDomains == {"d1"}
StoreKeys == {"a", "b"}
Datas == {<<"x">>, <<"y", "y">>}
Times == {1}

ForeignUrl(i) == <<"foreign", "dev", i>>
ForeignPaths == {<<>>,
                 <<[devid |-> 1, url |-> ForeignUrl(1)]>>,
                 <<[devid |-> 1, url |-> ForeignUrl(1)],
                   [devid |-> 2, url |-> ForeignUrl(2)]>>}

SdIdle ==
    [pc |-> "idle", domain |-> "", key |-> "", data |-> <<>>, tries |-> 0,
     open_ok |-> FALSE, fid |-> 0, paths |-> <<>>,
     dest |-> <<>>, status |-> 0, result |-> "none"]

SuccessStatus_any(st) == TRUE
\* store_data lines 93-97: StatusCode::Ok and StatusCode::Created pass
SuccessStatus(st) == st \in {200, 201}

\* the file the in-memory storage node serves at a URL
StoredAt(url) ==
    {dk \in StoreDomains \X StoreKeys : url_for_key(dk[1], dk[2]) = url}

\* the in-memory storage node's PUT: the body is stored with
\* store_reader_content under the file of the URL; 201 when that succeeds
StoragePut(b, url, data, now) ==
    LET target == CHOOSE dk \in StoredAt(url) : TRUE
        r == store_bytes_content(b, target[1], target[2], data, now)
    IN  [b |-> r.b, status |-> IF r.ok THEN 201 ELSE 404]

\* file d/k as another client's operation may change it
Touches(b1, b2) ==
    /\ sd.pc = "create_close"
    /\ file(b1, sd.domain, sd.key) # file(b2, sd.domain, sd.key)

\* store_data is called
SdStart ==
    /\ sd.pc \in {"idle", "done"}
    /\ \E d \in StoreDomains, k \in StoreKeys, data \in Datas :
         sd' = [SdIdle EXCEPT !.pc = "create_open", !.domain = d, !.key = k,
                              !.data = data]
    /\ sent' = <<>>
    /\ interfered' = FALSE
    /\ UNCHANGED <<domains, tracker, clientVars, parseVars, backendVars,
                 serverVars, metricVars>>

\* store_data line 76: one attempt of do_request for create_open.  The line
\* is lost, or reaches the tracker and the answer is lost, or is answered;
\* after 3 failed attempts the Io error is returned.
SdCreateOpen ==
    /\ sd.pc = "create_open"
    /\ \E io \in {"lost", "applied_lost", "answered"} :
         LET r == create_open(domains, sd.domain, sd.key)
         IN  /\ domains' = IF io # "lost" /\ tracker = "mem" THEN r.b ELSE domains
             /\ sent' = IF io # "lost" THEN Append(sent, "create_open") ELSE sent
             /\ IF io # "answered"
                THEN sd' = IF LoopBreak(Error(NoErr), sd.tries + 1)
                           THEN [sd EXCEPT !.pc = "done", !.result = "Io",
                                           !.tries = sd.tries + 1]
                           ELSE [sd EXCEPT !.tries = sd.tries + 1]
                ELSE IF tracker = "mem"
                THEN sd' = [sd EXCEPT !.pc = "pick", !.open_ok = TRUE, !.tries = 0,
                                      !.fid = r.val.fid, !.paths = r.val.paths]
                ELSE \E ans \in {"err", "bad_response", "ok"} :
                       IF ans = "ok"
                       THEN \E ps \in ForeignPaths :
                              sd' = [sd EXCEPT !.pc = "pick", !.open_ok = TRUE,
                                               !.tries = 0, !.fid = 1, !.paths = ps]
                       ELSE sd' = [sd EXCEPT !.pc = "done",
                                     !.result = IF ans = "err" THEN "TrackerErr"
                                                ELSE "BadResponse"]
    /\ UNCHANGED <<tracker, interfered, clientVars, parseVars, backendVars,
                 serverVars, metricVars>>

\* store_data lines 79-80: one of the destinations, NoPath when there is none
SdPick ==
    /\ sd.pc = "pick"
    /\ IF sd.paths = <<>>
       THEN sd' = [sd EXCEPT !.pc = "done", !.result = "NoPath"]
       ELSE \E i \in 1..Len(sd.paths) :
              sd' = [sd EXCEPT !.pc = "put", !.dest = <<sd.paths[i]>>]
    /\ UNCHANGED <<domains, tracker, sent, interfered, clientVars, parseVars,
                 backendVars, serverVars, metricVars>>

\* store_data lines 85-97: the PUT.  The request fails without reaching the
\* storage node, or the node handles it and its status is read, or the node
\* handles it and the response is lost.
SdPut ==
    /\ sd.pc = "put"
    /\ sent' = Append(sent, "PUT")
    /\ \E io \in {"send_error", "answered", "response_lost"} :
       \E foreign_status \in {200, 201, 500} :
       \E now \in Times :
         LET r == StoragePut(domains, sd.dest[1].url, sd.data, now)
             status == IF tracker = "mem" THEN r.status ELSE foreign_status
         IN  /\ domains' = IF io # "send_error" /\ tracker = "mem"
                           THEN r.b ELSE domains
             /\ sd' = IF io = "answered" /\ SuccessStatus(status)
                      THEN [sd EXCEPT !.pc = "create_close", !.status = status]
                      ELSE [sd EXCEPT !.pc = "done", !.result = "StorageError",
                                      !.status = IF io = "answered" THEN status ELSE 0]
    /\ UNCHANGED <<tracker, interfered, clientVars, parseVars, backendVars,
                 serverVars, metricVars>>

\* store_data lines 101-108: one attempt of do_request for create_close; its
\* result is the result of store_data
SdCreateClose ==
    /\ sd.pc = "create_close"
    /\ \E io \in {"lost", "applied_lost", "answered"} :
         LET r == create_close(domains, sd.domain, sd.key)
         IN  /\ domains' = IF io # "lost" /\ tracker = "mem" THEN r.b ELSE domains
             /\ sent' = IF io # "lost" THEN Append(sent, "create_close") ELSE sent
             /\ IF io # "answered"
                THEN sd' = IF LoopBreak(Error(NoErr), sd.tries + 1)
                           THEN [sd EXCEPT !.pc = "done", !.result = "Io",
                                           !.tries = sd.tries + 1]
                           ELSE [sd EXCEPT !.tries = sd.tries + 1]
                ELSE \E ans \in (IF tracker = "mem" THEN {"ok"} ELSE {"ok", "err"}) :
                       sd' = [sd EXCEPT !.pc = "done",
                                !.result = IF ans = "ok" THEN "Ok" ELSE "TrackerErr"]
    /\ UNCHANGED <<tracker, interfered, clientVars, parseVars, backendVars,
                 serverVars, metricVars>>

\* another client's request, handled by the backend under its write lock
Other(r) ==
    /\ tracker = "mem"
    /\ domains' = r.b
    /\ interfered' = (interfered \/ Touches(domains, r.b))
    /\ UNCHANGED <<tracker, sd, sent, clientVars, parseVars, backendVars,
                 serverVars, metricVars>>

OtherCreateDomain == \E d \in StoreDomains : Other(create_domain(domains, d))

OtherCreateOpen ==
    \E d \in StoreDomains, k \in StoreKeys : Other(create_open(domains, d, k))

OtherStore ==
    \E d \in StoreDomains, k \in StoreKeys, data \in Datas, now \in Times :
      Other(store_bytes_content(domains, d, k, data, now))

OtherRename ==
    \E d \in StoreDomains, from \in StoreKeys, to \in StoreKeys :
      Other(rename(domains, d, from, to))

OtherDelete ==
    \E d \in StoreDomains, k \in StoreKeys : Other(delete(domains, d, k))

StoreIdle ==
    /\ domains = EmptyMap
    /\ tracker = "mem"
    /\ sd = SdIdle
    /\ sent = <<>>
    /\ interfered = FALSE

ParseIdle == pin = <<>> /\ pout = NoResult

\* no backend call made yet
NoCall == [op |-> "none"]
NoPager == [pc |-> "idle"]
NoRq == [pc |-> "idle"]
BackendIdle == call = NoCall /\ pager = NoPager /\ rq = NoRq

\* no connection accepted, the lock free
NoLock == [writer |-> "none", readers |-> {}]
ServerIdle == conns = <<>> /\ lock = NoLock /\ lin = <<>> /\ threads = <<>>

\* no metrics sink: MogClient.statsd is None.  incr and timer count what
\* the sink received; base is history, the value of incr when the current
\* request began.
NoStats == [sink |-> FALSE, incr |-> 0, timer |-> 0, base |-> 0]
\* after report_stats_to: MogClient.statsd is Some
WithSink == [NoStats EXCEPT !.sink = TRUE]
MetricIdle == stats = NoStats

ClientIdle ==
    /\ hosts = <<>>
    /\ health = [t \in Trackers |-> "healthy"]
    /\ stream = new_state
    /\ pc = "idle"
    /\ cur = None
    /\ tries = 0
    /\ resp_line = <<>>
    /\ result = NoResult
    /\ attempts = <<>>
    /\ prev = [kind |-> "none", stream |-> None]
    /\ nreq = 0

\* MemBackend::new: no domains
StoreInit ==
    /\ domains = EmptyMap
    /\ tracker \in {"mem", "foreign"}
    /\ sd = SdIdle
    /\ sent = <<>>
    /\ interfered = FALSE
    /\ ClientIdle
    /\ ParseIdle
    /\ BackendIdle
    /\ ServerIdle
    /\ MetricIdle

StoreNext ==
    \/ SdStart \/ SdCreateOpen \/ SdPick \/ SdPut \/ SdCreateClose
    \/ OtherCreateDomain \/ OtherCreateOpen \/ OtherStore \/ OtherRename
    \/ OtherDelete

StoreSpec == StoreInit /\ [][StoreNext]_vars


(***************************************************************************)
(* The backend driven call by call: every action is one call of a          *)
(* MemBackend method (under the lock of SyncMemBackend), with its          *)
(* arguments, the backend before it and its result kept in `call`.         *)
(***************************************************************************)
BDomains == {"td", "d2"}
BKeys(d) == IF d = "td" THEN {"a", "b", "a/b"} ELSE {"a"}
BDatas == {<<"x", "y">>}

Called(op, d, k, to, r) ==
    /\ tracker = "mem"
    /\ domains' = r.b
    /\ call' = [op |-> op, d |-> d, k |-> k, to |-> to, pre |-> domains, res |-> r]
    /\ UNCHANGED <<tracker, sd, sent, interfered, pager, rq, clientVars, parseVars,
                   serverVars, metricVars>>

CallCreateDomain ==
    \E d \in BDomains : Called("create_domain", d, "", "", create_domain(domains, d))

CallCreateOpen ==
    \E d \in BDomains : \E k \in BKeys(d) :
      Called("create_open", d, k, "", create_open(domains, d, k))

CallGetPaths ==
    \E d \in BDomains : \E k \in BKeys(d) :
      Called("get_paths", d, k, "", get_paths(domains, d, k))

CallFileInfo ==
    \E d \in BDomains : \E k \in BKeys(d) :
      Called("file_info", d, k, "", file_info(domains, d, k))

CallDelete ==
    \E d \in BDomains : \E k \in BKeys(d) :
      Called("delete", d, k, "", delete(domains, d, k))

CallRename ==
    \E d \in BDomains : \E from \in BKeys(d), to \in BKeys(d) :
      Called("rename", d, from, to, rename(domains, d, from, to))

CallStore ==
    \E d \in BDomains : \E k \in BKeys(d) : \E data \in BDatas, now \in Times :
      Called("store", d, k, "", store_bytes_content(domains, d, k, data, now))

\* SyncMemBackend::create_close
CallCreateClose ==
    \E d \in BDomains : \E k \in BKeys(d) :
      Called("create_close", d, k, "", create_close(domains, d, k))

\* the dispatcher's create_close and updateclass, with the domain and the
\* key missing, empty or given
CallTrackerEmpty ==
    /\ tracker = "mem"
    /\ \E cmd \in {"create_close", "updateclass"} :
       \E d \in {<<>>, <<"td">>}, k \in {<<>>, <<"a">>} :
         LET args == [NoArgs EXCEPT !.domain = d, !.key = k]
             r == Tracker_handle(cmd, domains, args)
         IN  /\ domains' = r.b
             /\ call' = [op |-> "tracker_" \o cmd, d |-> "", k |-> "", to |-> "",
                         args |-> args, pre |-> domains, res |-> r]
    /\ UNCHANGED <<tracker, sd, sent, interfered, pager, rq, clientVars, parseVars,
                   serverVars, metricVars>>

CallFileMetadata ==
    \E d \in BDomains : \E k \in BKeys(d) :
      Called("file_metadata", d, k, "", file_metadata(domains, d, k))

\* get_content: val is what io::copy wrote to the writer
CallGetContent ==
    \E d \in BDomains : \E k \in BKeys(d) :
      Called("get_content", d, k, "", get_content(domains, d, k))

\* list_keys of a domain that holds no file, registered or not (the keys
\* of this specification are not byte strings, so nothing can be ordered)
CallListKeysEmpty ==
    \E d \in BDomains :
      /\ DOMAIN domain(domains, d).files = {}
      /\ Called("list_keys", d, "", "", list_keys(domains, d, <<>>, <<>>, <<>>))

BackendInit ==
    /\ StoreIdle
    /\ ClientIdle
    /\ ParseIdle
    /\ BackendIdle
    /\ ServerIdle
    /\ MetricIdle

BackendNext ==
    \/ CallCreateDomain \/ CallCreateOpen \/ CallGetPaths \/ CallFileInfo
    \/ CallDelete \/ CallRename \/ CallStore
    \/ CallCreateClose \/ CallTrackerEmpty \/ CallFileMetadata
    \/ CallGetContent \/ CallListKeysEmpty

BackendSpec == BackendInit /\ [][BackendNext]_vars

(***************************************************************************)
(* list_keys on a domain that does not change: one call of the backend or  *)
(* of the dispatcher, or a client paging with next_after.  A key is the    *)
(* sequence of its bytes.                                                  *)
(***************************************************************************)
LKeys == {<<>>, <<1>>, <<1, 1>>, <<1, 2>>, <<2>>, <<2, 1>>}
OverLimit == DefaultLimit + 1

\* the backend after create_domain and a create_open of each key
Populated(d, keys) ==
    d :> [name |-> d, files |-> [k \in keys |-> MemFileInfo_new(2, k)]]

Opt(S) == {<<>>} \cup {<<x>> : x \in S}

\* one call of MemBackend::list_keys
CallListKeys ==
    /\ pager = NoPager
    /\ call = NoCall
    /\ \E prefix \in Opt(LKeys), after \in Opt(LKeys),
          limit \in Opt(0..2) :
         call' = [op |-> "list_keys", d |-> "td", prefix |-> prefix,
                  after |-> after, limit |-> limit,
                  res |-> list_keys(domains, "td", prefix, after, limit)]
    /\ UNCHANGED <<pager, rq, storeVars, clientVars, parseVars, serverVars, metricVars>>

\* one list_keys request handled by the dispatcher
CallTrackerListKeys ==
    /\ pager = NoPager
    /\ call = NoCall
    /\ \E prefix \in Opt(LKeys), after \in Opt(LKeys),
          limit \in {<<>>, <<Parses(1)>>, <<Parses(2)>>, <<Unparsable>>,
                     <<Parses(OverLimit)>>} :
         LET args == [domain |-> <<"td">>, prefix |-> prefix, after |-> after,
                      limit |-> limit]
         IN  call' = [op |-> "tracker_list_keys", args |-> args,
                         resp |-> Tracker_list_keys(domains, args)]
    /\ UNCHANGED <<pager, rq, storeVars, clientVars, parseVars, serverVars, metricVars>>

\* a client starts paging: the first request has no after
PageStart ==
    /\ pager = NoPager
    /\ call = NoCall
    /\ \E prefix \in Opt(LKeys), limit \in {<<Parses(1)>>, <<Parses(2)>>, <<>>} :
         pager' = [pc |-> "paging", prefix |-> prefix, limit |-> limit,
                   after |-> <<>>, pages |-> <<>>]
    /\ UNCHANGED <<call, rq, storeVars, clientVars, parseVars, serverVars, metricVars>>

\* the next page: the request carries the next_after of the page before
\* it; an empty page ends the paging
PageNext ==
    /\ pager.pc = "paging"
    /\ LET args == [domain |-> <<"td">>, prefix |-> pager.prefix,
                    after |-> pager.after, limit |-> pager.limit]
           resp == Tracker_list_keys(domains, args)
       IN  pager' = [pager EXCEPT
                       !.pages = Append(@, resp.key),
                       !.after = resp.next_after,
                       !.pc = IF resp.key_count = 0 THEN "done" ELSE "paging"]
    /\ UNCHANGED <<call, rq, storeVars, clientVars, parseVars, serverVars, metricVars>>

ListInit ==
    /\ \E keys \in SUBSET LKeys : domains = Populated("td", keys)
    /\ tracker = "mem"
    /\ sd = SdIdle
    /\ sent = <<>>
    /\ interfered = FALSE
    /\ ClientIdle
    /\ ParseIdle
    /\ BackendIdle
    /\ ServerIdle
    /\ MetricIdle

ListNext == CallListKeys \/ CallTrackerListKeys \/ PageStart \/ PageNext

ListSpec == ListInit /\ [][ListNext]_vars

(***************************************************************************)
(* The dispatcher request by request: every action is one Tracker::handle  *)
(* of a parsed request whose arguments are missing, empty or given.        *)
(***************************************************************************)
Commands == {"create_domain", "create_open", "create_close", "get_paths",
             "file_info", "rename", "updateclass", "delete", "list_keys", "noop"}
DomainArgs == {<<>>, <<"">>, <<"td">>}
KeyArgs == {<<>>, <<"">>, <<"a">>}

Handle ==
    /\ tracker = "mem"
    /\ \E cmd \in Commands, d \in DomainArgs, k \in KeyArgs, k2 \in KeyArgs :
         /\ (cmd # "rename") => k2 = <<>>
         /\ LET args == [domain |-> d, key |-> k, from_key |-> k, to_key |-> k2]
                r == Tracker_handle(cmd, domains, args)
            IN  /\ domains' = r.b
                /\ call' = [op |-> "handle", cmd |-> cmd, args |-> args,
                            pre |-> domains, res |-> r]
    /\ UNCHANGED <<tracker, sd, sent, interfered, pager, rq, clientVars, parseVars,
                   serverVars, metricVars>>

DispatchNext == Handle

DispatchSpec == BackendInit /\ [][DispatchNext]_vars

(***************************************************************************)
(* The threaded listener: a handler per accepted connection, all sharing   *)
(* one tracker.  Clients send lines whenever they like; a handler reads a  *)
(* line, has the tracker handle it and writes the response.                *)
(***************************************************************************)
MaxLines == 2
ConnIds == {1, 2}
Lines == { <<>>,
           <<"noop">>,
           <<"create_open", SP, "domain=td&key=a", CR>>,
           <<"create_open", SP, "%zz">>,
           <<"bogus", CR>>,
           <<"0xFF">> }

\* bytes a client may leave unterminated when it closes
PartialLines == { <<"create_open", SP, "domain=td&key=a">>, <<"noop">> }

\* input: the runs of bytes between newlines that the client has sent; eof:
\* the client has closed; unterminated: the last run of input was not
\* followed by a newline before the client closed
NewConn == [input |-> <<>>, nread |-> 0, pc |-> "read", line |-> <<>>,
            resp |-> <<>>, ndispatched |-> 0, out |-> <<>>,
            eof |-> FALSE, unterminated |-> FALSE]

Conn(c, next) ==
    /\ conns' = [conns EXCEPT ![c] = next]
    /\ UNCHANGED <<tracker, sd, sent, interfered, backendVars, clientVars,
                   parseVars, lock, lin, threads, metricVars>>

TotalLines == LET RECURSIVE Sum(_)
                  Sum(i) == IF i = 0 THEN 0 ELSE Len(conns[i].input) + Sum(i - 1)
              IN  Sum(Len(conns))

\* ThreadedListener::run: accept a connection and spawn its handler
Accept ==
    /\ Len(conns) < Cardinality(ConnIds)
    /\ conns' = Append(conns, NewConn)
    /\ UNCHANGED <<storeVars, backendVars, clientVars, parseVars, lock, lin,
                   threads, metricVars>>

\* a client sends one more request line on its connection
Send ==
    /\ TotalLines < MaxLines
    /\ \E c \in DOMAIN conns, l \in Lines :
         /\ conns[c].pc \notin {"failed", "exited"}
         /\ ~conns[c].eof
         /\ Conn(c, [conns[c] EXCEPT !.input = Append(@, l)])
         /\ UNCHANGED domains

\* a client closes its connection, after its last newline or in the middle
\* of a line
Close ==
    \E c \in DOMAIN conns :
      /\ conns[c].pc \notin {"failed", "exited"}
      /\ ~conns[c].eof
      /\ \/ Conn(c, [conns[c] EXCEPT !.eof = TRUE])
         \/ /\ TotalLines < MaxLines
            /\ \E l \in PartialLines :
                 Conn(c, [conns[c] EXCEPT !.eof = TRUE, !.unterminated = TRUE,
                                          !.input = Append(@, l)])
      /\ UNCHANGED domains

\* reader.split(b'\n') has nothing left at end of file: the loop ends and
\* handle_connection returns Ok(())
ConnExit ==
    \E c \in DOMAIN conns :
      /\ conns[c].pc = "read"
      /\ conns[c].eof
      /\ conns[c].nread = Len(conns[c].input)
      /\ Conn(c, [conns[c] EXCEPT !.pc = "exited"])
      /\ UNCHANGED domains

\* for line in reader.split(b'\n'); let mut line = try!(line); pop '\r'.
\* Split yields every run of input, the last one also when end of file
\* comes before its newline (read_until returns the bytes it has).
ConnRead ==
    \E c \in DOMAIN conns :
      /\ conns[c].pc = "read"
      /\ conns[c].nread < Len(conns[c].input)
      /\ Conn(c, [conns[c] EXCEPT !.line = pop_cr(conns[c].input[next_line(conns[c])]),
                                   !.nread = @ + 1,
                                   !.pc = "handle"])
      /\ UNCHANGED domains

\* let response = tracker.handle(line.as_ref())
ConnHandle ==
    \E c \in DOMAIN conns :
      /\ conns[c].pc = "handle"
      /\ LET r == handle_bytes(domains, conns[c].line)
         IN  /\ domains' = r.b
             /\ Conn(c, [conns[c] EXCEPT !.resp = << [called |-> r.called, ok |-> r.ok, err |-> r.err,
                                                      unchanged |-> r.b = domains] >>,
                                          !.ndispatched = @ + 1,
                                          !.pc = "write"])

\* try!(writer.write_all(response.render()))
ConnWrite ==
    \E c \in DOMAIN conns :
      /\ conns[c].pc = "write"
      /\ Conn(c, [conns[c] EXCEPT !.out = Append(@, [line |-> conns[c].line,
                                                     resp |-> conns[c].resp[1]]),
                                   !.resp = <<>>,
                                   !.pc = "read"])
      /\ UNCHANGED domains

\* the try! of the read or of the write returns the I/O error: the handler
\* ends
ConnFail ==
    \E c \in DOMAIN conns :
      /\ conns[c].pc \in {"read", "write"}
      /\ Conn(c, [conns[c] EXCEPT !.pc = "failed"])
      /\ UNCHANGED domains

ConnNext ==
    \/ Accept \/ Send \/ Close \/ ConnRead \/ ConnHandle \/ ConnWrite
    \/ ConnExit \/ ConnFail

ConnSpec == BackendInit /\ [][ConnNext]_vars

(***************************************************************************)
(* SyncMemBackend: handler threads calling the methods of one shared       *)
(* RwLock<MemBackend>.  A method takes the read or the write guard, runs   *)
(* the MemBackend method step by step and drops the guard when it returns. *)
(***************************************************************************)
ThreadIds == {"h1", "h2"}
LockOps == { [name |-> "create_open", k |-> "a", to |-> ""],
             [name |-> "delete", k |-> "a", to |-> ""],
             [name |-> "rename", k |-> "a", to |-> "b"],
             [name |-> "rename", k |-> "b", to |-> "a"],
             [name |-> "store_reader_content", k |-> "a", to |-> ""],
             [name |-> "get_paths", k |-> "a", to |-> ""],
             [name |-> "get_paths", k |-> "b", to |-> ""],
             [name |-> "file_info", k |-> "a", to |-> ""],
             [name |-> "get_content", k |-> "a", to |-> ""] }
\* self.0.read() for these, self.0.write() for the others
ReadOps == {"get_paths", "file_info", "list_keys", "file_metadata", "get_content"}

IdleThread == [pc |-> "idle", op |-> <<>>, data |-> <<>>, held |-> <<>>, res |-> <<>>]
ResultOf(r) == [ok |-> r.ok, err |-> r.err, val |-> r.val]

CanRead_during_write(l) == TRUE
\* RwLock::read: granted when no writer holds the lock
CanRead(l) == l.writer = "none"
\* RwLock::write: granted when nobody holds the lock
CanWrite(l) == l.writer = "none" /\ l.readers = {}
Holds(l, t) == l.writer = t \/ t \in l.readers

\* the MemBackend method an operation runs, as one sequential call; data is
\* what io::copy got from the reader (<<>>: the copy failed)
MemBackend_call(op, b, data) ==
    CASE op.name = "create_open" -> create_open(b, "td", op.k)
      [] op.name = "delete" -> delete(b, "td", op.k)
      [] op.name = "rename" -> rename(b, "td", op.k, op.to)
      [] op.name = "store_reader_content" ->
           IF data = <<>> THEN Err(b, "io")
           ELSE store_bytes_content(b, "td", op.k, data[1], 1)
      [] op.name = "get_paths" -> get_paths(b, "td", op.k)
      [] op.name = "file_info" -> file_info(b, "td", op.k)
      [] op.name = "get_content" -> get_content(b, "td", op.k)

Thread(t, next) ==
    /\ threads' = [threads EXCEPT ![t] = next]
    /\ UNCHANGED <<tracker, sd, sent, interfered, backendVars, clientVars,
                   parseVars, conns, metricVars>>

\* a handler thread calls a method of the shared backend
LockCall ==
    \E t \in ThreadIds, op \in LockOps :
      /\ threads[t].pc = "idle"
      /\ Thread(t, [threads[t] EXCEPT !.pc = "waiting", !.op = op])
      /\ UNCHANGED <<domains, lock, lin>>

\* try!(self.0.read())
LockRead ==
    \E t \in ThreadIds :
      /\ threads[t].pc = "waiting"
      /\ threads[t].op.name \in ReadOps
      /\ CanRead(lock)
      /\ lock' = [lock EXCEPT !.readers = @ \cup {t}]
      /\ Thread(t, [threads[t] EXCEPT !.pc = "locked"])
      /\ UNCHANGED <<domains, lin>>

\* try!(self.0.write()); store_reader_content then starts io::copy from
\* its reader
LockWrite ==
    \E t \in ThreadIds :
      /\ threads[t].pc = "waiting"
      /\ threads[t].op.name \notin ReadOps
      /\ CanWrite(lock)
      /\ lock' = [lock EXCEPT !.writer = t]
      /\ Thread(t, [threads[t] EXCEPT
                      !.pc = IF threads[t].op.name = "store_reader_content"
                             THEN "reading" ELSE "locked"])
      /\ UNCHANGED <<domains, lin>>

\* a method that is one MemBackend call without I/O; get_content finds the
\* content and then starts io::copy to its writer
LockCompute ==
    \E t \in ThreadIds :
      /\ threads[t].pc = "locked"
      /\ threads[t].op.name # "rename"
      /\ LET r == MemBackend_call(threads[t].op, domains, <<>>)
         IN  /\ domains' = r.b
             /\ Thread(t, [threads[t] EXCEPT
                             !.res = << ResultOf(r) >>,
                             !.pc = IF threads[t].op.name = "get_content" /\ r.ok
                                    THEN "writing" ELSE "returning"])
      /\ UNCHANGED <<lock, lin>>

\* io::copy to the writer of get_content is over
LockWritten ==
    \E t \in ThreadIds :
      /\ threads[t].pc = "writing"
      /\ Thread(t, [threads[t] EXCEPT !.pc = "returning"])
      /\ UNCHANGED <<domains, lock, lin>>

\* io::copy from the reader is over (or failed: try!), then
\* store_bytes_content
LockStore ==
    \E t \in ThreadIds, data \in Opt(BDatas) :
      /\ threads[t].pc = "reading"
      /\ LET r == MemBackend_call(threads[t].op, domains, data)
         IN  /\ domains' = r.b
             /\ Thread(t, [threads[t] EXCEPT !.data = data,
                                             !.res = << ResultOf(r) >>,
                                             !.pc = "returning"])
      /\ UNCHANGED <<lock, lin>>

\* MemDomain::rename up to self.files.remove(from)
LockRenameRemove ==
    \E t \in ThreadIds :
      /\ threads[t].pc = "locked"
      /\ threads[t].op.name = "rename"
      /\ LET op == threads[t].op
             b1 == domain_mut(domains, "td")
             fs == b1["td"].files
         IN  IF op.to \in DOMAIN fs \/ op.k \notin DOMAIN fs
             THEN /\ domains' = b1
                  /\ Thread(t, [threads[t] EXCEPT
                                  !.res = << ResultOf(rename(domains, "td", op.k, op.to)) >>,
                                  !.pc = "returning"])
             ELSE /\ domains' = [b1 EXCEPT !["td"].files = MapRemove(fs, op.k)]
                  /\ Thread(t, [threads[t] EXCEPT !.held = << fs[op.k] >>,
                                                  !.pc = "half"])
      /\ UNCHANGED <<lock, lin>>

\* file_info.key = to; self.files.insert(to, file_info); Ok(())
LockRenameInsert ==
    \E t \in ThreadIds :
      /\ threads[t].pc = "half"
      /\ LET op == threads[t].op
         IN  /\ domains' = [domains EXCEPT !["td"].files =
                               MapInsert(@, op.to, [threads[t].held[1] EXCEPT !.key = op.to])]
             /\ Thread(t, [threads[t] EXCEPT !.held = <<>>,
                                             !.res = << ResultOf(Ok(domains, <<>>)) >>,
                                             !.pc = "returning"])
      /\ UNCHANGED <<lock, lin>>

\* the method returns and its guard is dropped; the operation takes its
\* place in the order of lin
LockReturn ==
    \E t \in ThreadIds :
      /\ threads[t].pc = "returning"
      /\ lock' = [writer |-> IF lock.writer = t THEN "none" ELSE lock.writer,
                  readers |-> lock.readers \ {t}]
      /\ lin' = MemBackend_call(threads[t].op, lin, threads[t].data).b
      /\ Thread(t, IdleThread)
      /\ UNCHANGED domains

LockInit ==
    /\ domains = create_open(EmptyMap, "td", "a").b
    /\ tracker = "mem"
    /\ sd = SdIdle
    /\ sent = <<>>
    /\ interfered = FALSE
    /\ ClientIdle
    /\ ParseIdle
    /\ BackendIdle
    /\ MetricIdle
    /\ conns = <<>>
    /\ lock = NoLock
    /\ lin = domains
    /\ threads = [t \in ThreadIds |-> IdleThread]

LockNext ==
    \/ LockCall \/ LockRead \/ LockWrite \/ LockCompute \/ LockWritten
    \/ LockStore \/ LockRenameRemove \/ LockRenameInsert \/ LockReturn

LockSpec == LockInit /\ [][LockNext]_vars

(***************************************************************************)
(* One logical create_domain request of a client against the tracker with  *)
(* the in-memory backend, attempt by attempt of do_request's loop.         *)
(***************************************************************************)
\* what can happen to one attempt: the line never reaches the tracker
\* (connect or write failed); it reaches the tracker, which handles it, and
\* the read of the response fails; or the response is read
AttemptOutcomes == {"lost", "applied_lost", "answered"}

\* the client calls do_request: tries = 0
RqBegin ==
    /\ rq.pc \in {"idle", "done"}
    /\ \E d \in BDomains :
         rq' = [pc |-> "loop", domain |-> d, tries |-> 0, applied |-> 0,
                pre |-> domains, result |-> "none"]
    /\ UNCHANGED <<storeVars, call, pager, clientVars, parseVars, serverVars,
                   metricVars>>

\* one pass of the loop: connect if needed, write the request line, read
\* the response, tries += 1, break when connected or tries >= 3
RqAttempt ==
    /\ rq.pc = "loop"
    /\ \E io \in AttemptOutcomes :
         LET r == create_domain(domains, rq.domain)
             reached == io # "lost"
             after == IF io = "answered" THEN Connected("t1")
                      ELSE Error(IoErr(rq.tries + 1, "read"))
             tried == [rq EXCEPT !.tries = @ + 1,
                                 !.applied = IF reached THEN @ + 1 ELSE @]
         IN  /\ domains' = IF reached THEN r.b ELSE domains
             /\ rq' = IF ~LoopBreak(after, rq.tries + 1) THEN tried
                      ELSE [tried EXCEPT !.pc = "done",
                                         !.result = IF io # "answered" THEN "Io"
                                                    ELSE IF r.ok THEN "ok" ELSE r.err]
    /\ UNCHANGED <<tracker, sd, sent, interfered, call, pager, clientVars,
                   parseVars, serverVars, metricVars>>

RetryNext == RqBegin \/ RqAttempt

RetrySpec == BackendInit /\ [][RetryNext]_vars

(***************************************************************************)
(* response_from_bytes as a pure function of bounded inputs.               *)
(***************************************************************************)
Alphabet == {"O", "K", "E", "R", SP, "%", "2", "B", "+", "x"}

BoundedSeqs(S, n) == UNION {[1..k -> S] : k \in 0..n}

ParseInit ==
    /\ pin \in BoundedSeqs(Alphabet, MaxLen)
    /\ pout = NoResult
    /\ ClientIdle
    /\ StoreIdle
    /\ BackendIdle
    /\ ServerIdle
    /\ MetricIdle

\* the call response_from_bytes(request, pin)
Parse ==
    /\ pout = NoResult
    /\ pout' = response_from_bytes(pin)
    /\ UNCHANGED <<pin, clientVars, storeVars, backendVars,
                 serverVars, metricVars>>

ParseNext == Parse

ParseSpec == ParseInit /\ [][ParseNext]_vars

(***************************************************************************)
(* The client transport specification                                      *)
(***************************************************************************)
\* MogClientTransport::new: the stream starts as Some(NoConnection)
Init ==
    /\ \E c \in Configs : hosts = c.hosts /\ health = c.health
    /\ stream = new_state
    /\ pc = "idle"
    /\ cur = None
    /\ tries = 0
    /\ resp_line = <<>>
    /\ result = NoResult
    /\ attempts = <<>>
    /\ prev = [kind |-> "none", stream |-> None]
    /\ nreq = 0
    /\ ParseIdle
    /\ StoreIdle
    /\ BackendIdle
    /\ ServerIdle
    /\ stats \in {NoStats, WithSink}

Step == AlreadyConnected \/ PickAndConnect \/ Write \/ Read \/ Finish

Next == Begin \/ Step

Spec == Init /\ [][Next]_vars

\* every I/O call of a running request returns
LiveSpec == Init /\ [][Next]_vars /\ WF_vars(Step)

(***************************************************************************)
(* Properties of do_request                                                *)
(***************************************************************************)
AttemptFailed(a) == a.conn = "fail" \/ a.write = "fail" \/ a.read = "fail"
AttemptSucceeded(a) == a.write = "ok" /\ a.read = "ok"
Last(seq) == seq[Len(seq)]
Parsed == {"Ok", "TrackerErr", "Other"}

\* C1: a request makes at most 3 attempts, and every started request
\* finishes, whatever the I/O calls return.
C1_AtMostThreeAttemptsAndTerminates ==
    /\ [](tries <= 3 /\ Len(attempts) <= 3)
    /\ [](pc # "idle" => <>(pc = "idle"))

C1_Witness ==
    /\ pc = "idle"
    /\ Len(attempts) = 3
    /\ tries = 3
    /\ result.kind = "Io"

\* C2: an attempt is followed by another only if it ended in an I/O error;
\* an attempt whose write and read both succeeded is the last one, so a
\* request with no I/O error is written exactly once, and a request that
\* returns a parsed response (success, tracker ERR, or unparsable line) made
\* exactly one successful attempt, its last.
C2_RetryOnlyAfterIoError ==
    /\ \A i \in 1..Len(attempts) :
         /\ (i < Len(attempts) => AttemptFailed(attempts[i]))
         /\ (AttemptSucceeded(attempts[i]) => i = Len(attempts))
    /\ (pc \in {"harvest", "idle"} /\ attempts # <<>>
          /\ \A i \in 1..Len(attempts) : ~AttemptFailed(attempts[i]))
       => /\ Len(attempts) = 1
          /\ attempts[1].write = "ok"
    /\ (pc = "idle" /\ result.kind \in Parsed)
       => /\ attempts # <<>>
          /\ AttemptSucceeded(Last(attempts))
          /\ Cardinality({i \in 1..Len(attempts) :
                            AttemptSucceeded(attempts[i])}) = 1

C2_Witness ==
    /\ pc = "idle"
    /\ result.kind = "TrackerErr"
    /\ Len(attempts) = 2
    /\ attempts[1].write = "ok"
    /\ attempts[1].read = "fail"

\* C3: when all 3 attempts ended in an I/O error the request returns the Io
\* error of the third attempt and stores NoConnection; when the last attempt
\* succeeded no Io error is returned.
C3_LastErrorSurfaced ==
    pc = "idle" /\ attempts # <<>> =>
      /\ (Len(attempts) = 3 /\ \A i \in 1..3 : AttemptFailed(attempts[i]))
         => /\ result.kind = "Io"
            /\ result.payload.attempt = 3
            /\ result.payload.stage =
                 (IF attempts[3].conn = "fail" THEN "connect"
                  ELSE IF attempts[3].write = "fail" THEN "write" ELSE "read")
            /\ stream = NoConnection
      /\ AttemptSucceeded(Last(attempts)) => result.kind # "Io"

C3_Witness ==
    /\ pc = "idle"
    /\ Len(attempts) = 3
    /\ attempts[1].read = "fail"
    /\ attempts[2].write = "fail"
    /\ attempts[3].conn = "fail"
    /\ result.kind = "Io"

\* C4: take_err on Error gives NoConnection and the held error, on any other
\* state it gives the state back and no error; between two requests the
\* stored connection state is never Error.
C4_ErrorIsOneShot ==
    /\ pc = "harvest" =>
         LET te == take_err(cur)
         IN  /\ cur.kind = "Error" => te.state = NoConnection /\ te.err = cur.err
             /\ cur.kind # "Error" => te.state = cur /\ te.err = NoErr
    /\ pc = "idle" => stream.kind \in {"None", "NoConnection", "Connected"}
    /\ (pc = "idle" /\ result.kind = "Io") => stream = NoConnection

C4_Witness ==
    /\ pc = "idle"
    /\ result.kind = "Io"
    /\ result.payload.stage = "read"
    /\ stream = NoConnection

FailoverConfig ==
    /\ hosts = <<T1, T2>>
    /\ health[T1] = "refusing"
    /\ health[T2] = "healthy"

\* C5 as stated: with a refusing first and a healthy second tracker every
\* request issued from NoConnection succeeds and leaves peer_addr at the second.
C5_FailoverAlwaysSucceeds ==
    (FailoverConfig /\ pc = "idle" /\ nreq >= 1
       /\ prev.stream.kind = "NoConnection")
    => result.kind = "Ok" /\ peer_addr(stream) = T2

\* C5 amended: such a request succeeds exactly when one of its attempts
\* picks the second tracker, and then peer_addr reports the second tracker;
\* when all 3 picks hit the refusing tracker it returns the Io error of the
\* third connect and the client is left not connected.
C5_FailoverSucceedsIfSecondPicked ==
    (FailoverConfig /\ pc = "idle" /\ nreq >= 1
       /\ prev.stream.kind = "NoConnection")
    => /\ attempts # <<>>
       /\ (\E i \in 1..Len(attempts) : attempts[i].picked = T2)
          => /\ result = [kind |-> "Ok", payload |-> <<>>]
             /\ peer_addr(stream) = T2
             /\ Last(attempts).picked = T2
       /\ (\A i \in 1..Len(attempts) : attempts[i].picked = T1)
          => /\ Len(attempts) = 3
             /\ result = [kind |-> "Io", payload |-> IoErr(3, "connect")]
             /\ ~is_connected(stream)
             /\ peer_addr(stream) = "none"

C5_Witness ==
    /\ FailoverConfig
    /\ pc = "idle"
    /\ prev.stream.kind = "NoConnection"
    /\ Len(attempts) = 3
    /\ attempts[1].picked = T1
    /\ attempts[2].picked = T1
    /\ attempts[3].picked = T2
    /\ result.kind = "Ok"
    /\ peer_addr(stream) = T2

\* C6: after a request that made an attempt, a result other than an Io
\* error leaves the client connected and the next request starts on that
\* connection without picking a tracker or connecting; an Io error leaves
\* it not connected with no peer address.
C6_ConnectedUnlessIoError ==
    /\ (pc = "idle" /\ attempts # <<>>) =>
         /\ result.kind # "Io" => is_connected(stream)
         /\ result.kind = "Io" =>
              ~is_connected(stream) /\ peer_addr(stream) = "none"
    /\ (attempts # <<>> /\ prev.kind \in Parsed) =>
         /\ attempts[1].start = "Connected"
         /\ attempts[1].picked = "none"
         /\ attempts[1].conn = "none"

C6_Witness ==
    /\ pc = "idle"
    /\ nreq = 2
    /\ prev.kind = "TrackerErr"
    /\ is_connected(prev.stream)
    /\ Len(attempts) = 1
    /\ attempts[1].conn = "none"
    /\ result.kind = "Ok"
    /\ stream = prev.stream

\* C7: with an empty tracker list a request fails with NoTrackers without
\* connecting or writing, and the client is not connected afterwards; in
\* every request a tracker is picked exactly on the attempts that start
\* without a live connection.
C7_NoTrackers ==
    /\ hosts = <<>> =>
         /\ ~is_connected(stream) /\ ~is_connected(cur)
         /\ attempts = <<>>
         /\ (pc = "idle" /\ nreq >= 1) => result.kind = "NoTrackers"
    /\ \A i \in 1..Len(attempts) :
         (attempts[i].picked # "none") <=> (attempts[i].start # "Connected")

C7_Witness ==
    /\ hosts = <<>>
    /\ pc = "idle"
    /\ nreq = 2
    /\ result.kind = "NoTrackers"
    /\ ~is_connected(stream)

(***************************************************************************)
(* Properties of response_from_bytes                                       *)
(***************************************************************************)
RECURSIVE DecodedFrom(_, _)
\* the percent-decoding of tok from position i on, read off the positions
DecodedFrom(tok, i) ==
    IF i > Len(tok) THEN <<>>
    ELSE IF tok[i] = "%" /\ i + 2 <= Len(tok)
            /\ tok[i + 1] \in HexDigits /\ tok[i + 2] \in HexDigits
         THEN <<IF <<tok[i + 1], tok[i + 2]>> = <<"2", "B">> THEN "+"
                ELSE IF <<tok[i + 1], tok[i + 2]>> = <<"2", "2">> THEN "DQUOTE"
                ELSE "U+FFFD">> \o DecodedFrom(tok, i + 3)
         ELSE <<tok[i]>> \o DecodedFrom(tok, i + 1)

FirstToken(bytes) ==
    IF \E i \in 1..Len(bytes) : bytes[i] = SP
    THEN SubSeq(bytes, 1, (CHOOSE i \in 1..Len(bytes) :
                             bytes[i] = SP /\ \A j \in 1..(i - 1) : bytes[j] # SP) - 1)
    ELSE bytes

UnknownToken == pout # NoResult /\ FirstToken(pin) \notin {OKTok, ERRTok}

\* C8 as stated: a first token that is neither OK nor ERR gives the unknown
\* response error carrying the percent-decoded token.
C8_CarriesPercentDecodedToken ==
    UnknownToken =>
      pout.kind = "Other" /\ pout.payload = DecodedFrom(FirstToken(pin), 1)

\* C8 amended: it gives the error Other("Unknown response code") carrying
\* the token percent-decoded and then with every "+" turned into a space
\* (also a "+" that came from %2B).
C8_CarriesDecodedTokenPlusAsSpace ==
    UnknownToken =>
      /\ pout.kind = "Other"
      /\ LET d == DecodedFrom(FirstToken(pin), 1)
         IN  /\ Len(pout.payload) = Len(d)
             /\ \A i \in 1..Len(d) :
                  pout.payload[i] = (IF d[i] = "+" THEN SP ELSE d[i])

C8_Witness ==
    /\ pin = <<"x", "%", "2", "B">>
    /\ pout = [kind |-> "Other", payload |-> <<"x", SP>>]

(***************************************************************************)
(* Properties of store_data                                                *)
(***************************************************************************)
Rank(ev) == IF ev = "create_open" THEN 1 ELSE IF ev = "PUT" THEN 2 ELSE 3
Count(seq, ev) == Cardinality({i \in 1..Len(seq) : seq[i] = ev})
KeySets(b) == [d \in DOMAIN b |-> DOMAIN b[d].files]

StoreOrdered ==
    /\ \A i \in 1..Len(sent) : \A j \in i..Len(sent) : Rank(sent[i]) <= Rank(sent[j])
    /\ Count(sent, "PUT") <= 1
    /\ Count(sent, "PUT") = 1 =>
         /\ Count(sent, "create_open") >= 1
         /\ sd.open_ok
         /\ sd.paths # <<>>
         /\ \E i \in 1..Len(sd.paths) : sd.dest = <<sd.paths[i]>>
    /\ Count(sent, "create_close") >= 1 =>
         /\ Count(sent, "PUT") = 1
         /\ sd.status \in {200, 201}
    /\ (sd.pc = "done" /\ sd.open_ok /\ sd.paths = <<>>) =>
         sd.result = "NoPath" /\ Count(sent, "PUT") = 0
    /\ (sd.pc = "done" /\ Count(sent, "PUT") = 1 /\ sd.status \notin {200, 201}) =>
         sd.result = "StorageError" /\ Count(sent, "create_close") = 0

StoredOk == tracker = "mem" /\ sd.pc = "done" /\ sd.result = "Ok"

\* the step in which store_data returns success
ReturnsOk == sd.pc # "done" /\ StoredOk'

ReadsBack ==
    /\ get_content(domains, sd.domain, sd.key) = Ok(domains, sd.data)
    /\ file_info(domains, sd.domain, sd.key).ok
    /\ file_info(domains, sd.domain, sd.key).val.length = Len(sd.data)

\* C10 as stated: at the moment store_data returns success, also with other
\* clients working on the same key, the content and the length read back
\* are those stored.
C10_StoredReadsBackAlways == [][ReturnsOk => ReadsBack']_vars

\* C10 amended: at the moment store_data returns success, provided no other
\* client's create_open, store, rename or delete changed the file between
\* the PUT and the return, the content and the length read back are those
\* stored.
C10_StoredReadsBackUndisturbed ==
    [][(ReturnsOk /\ ~interfered') => ReadsBack']_vars

C10_Witness ==
    /\ StoredOk
    /\ ~interfered
    /\ sd.data = <<"y", "y">>
    /\ sd.key = "b"
    /\ Count(sent, "create_open") = 2
    /\ Count(sent, "create_close") = 2
    /\ "a" \in DOMAIN domains["d1"].files
    /\ ReadsBack

(***************************************************************************)
(* Properties of the in-memory backend, call by call                       *)
(***************************************************************************)
files(b, d) == domain(b, d).files
Present(b, d, k) == k \in DOMAIN files(b, d)
Reserved(f) == f.content = <<>> /\ f.size = <<>> /\ f.mtime = <<>>
Materialised(f) == f.content # <<>> /\ f.size # <<>> /\ f.mtime # <<>>
StorageUrl(d, k) == <<"base_path", "d", d, "k">> \o KeySegments(k)

\* C11: create_domain on a name not yet present inserts an empty domain of
\* that name, changes nothing else and echoes the name; on a name already
\* present it returns domain_exists and leaves the backend as it was; a
\* second create_domain of the same name changes nothing.
C11_CreateDomainIdempotent ==
    /\ call.op = "create_domain" =>
          IF call.d \in DOMAIN call.pre
          THEN /\ ~call.res.ok
               /\ call.res.err = "domain_exists"
               /\ domains = call.pre
          ELSE /\ call.res.ok
               /\ call.res.val = call.d
               /\ DOMAIN domains = DOMAIN call.pre \cup {call.d}
               /\ domains[call.d] = [name |-> call.d, files |-> EmptyMap]
               /\ \A x \in DOMAIN call.pre : domains[x] = call.pre[x]
    /\ \A d \in BDomains :
          create_domain(create_domain(domains, d).b, d).b = create_domain(domains, d).b

C11_Witness ==
    /\ call.op = "create_domain"
    /\ call.d \in DOMAIN call.pre
    /\ files(call.pre, call.d) # EmptyMap
    /\ call.res.err = "domain_exists"

\* C12: create_open always succeeds: the domain exists afterwards (it is
\* created when it was absent, never unreg_domain), the key is present and
\* reserved, and the response has exactly one destination, devid 1 with the
\* storage URL of the domain and key.
C12_CreateOpenAlwaysSucceeds ==
    call.op = "create_open" =>
      /\ call.res.ok
      /\ call.d \in DOMAIN domains
      /\ Present(domains, call.d, call.k)
      /\ Reserved(files(domains, call.d)[call.k])
      /\ files(domains, call.d)[call.k].key = call.k
      /\ call.res.val.paths = <<[devid |-> 1, url |-> StorageUrl(call.d, call.k)]>>
      /\ call.res.val.paths[1].url = url_for_key(call.d, call.k)

C12_Witness ==
    /\ call.op = "create_open"
    /\ call.d \notin DOMAIN call.pre
    /\ call.res.ok
    /\ call.d \in DOMAIN domains

\* C13: create_open on a key already in the domain succeeds and replaces
\* the record: the file is reserved afterwards and carries the fid this
\* call assigned and returned.
C13_DuplicateCreateOpenReplaces ==
    (call.op = "create_open" /\ Present(call.pre, call.d, call.k)) =>
      /\ call.res.ok
      /\ files(domains, call.d)[call.k] = MemFileInfo_new(call.res.val.fid, call.k)
      /\ Reserved(files(domains, call.d)[call.k])

C13_Witness ==
    /\ call.op = "create_open"
    /\ Present(call.pre, call.d, call.k)
    /\ Materialised(files(call.pre, call.d)[call.k])
    /\ files(call.pre, call.d)[call.k].fid # call.res.val.fid
    /\ Reserved(files(domains, call.d)[call.k])

AllFiles(b) == {dk \in BDomains \X {"a", "b", "a/b"} : Present(b, dk[1], dk[2])}
FidOf(b, dk) == files(b, dk[1])[dk[2]].fid

\* C14: in every reachable state of the backend no two files with different
\* keys, in the same domain or in different ones, carry the same fid.
C14_FidNeverReused ==
    \A x \in AllFiles(domains), y \in AllFiles(domains) :
      x[2] # y[2] => FidOf(domains, x) # FidOf(domains, y)

HasArg(resp, name, value) ==
    \E i \in 1..Len(resp.args) : resp.args[i][1] = name /\ resp.args[i][2] = value
FreshWithTd == create_domain(EmptyMap, "td").b

\* C15: on a fresh tracker, after create_domain td, the response to
\* create_open of td and a/b is a success whose arguments include fid=1,
\* dev_count=1, devid_1=1 and path_1 = the storage URL of td and a/b.
C15_FreshCreateOpenResponse ==
    (/\ call.op = "create_open"
     /\ call.pre = FreshWithTd
     /\ call.d = "td"
     /\ call.k = "a/b") =>
      LET resp == Tracker_create_open(call.res)
      IN  /\ resp.ok
          /\ HasArg(resp, "fid", 1)
          /\ HasArg(resp, "dev_count", 1)
          /\ HasArg(resp, "devid_1", 1)
          /\ HasArg(resp, "path_1", StorageUrl("td", "a/b"))

\* C16: get_paths returns unknown_key naming the key whenever the key is not
\* in the domain, also when the domain was never created; when the key is
\* present, reserved or materialised, it returns exactly one path, the URL
\* create_open returns for the domain and key.  It changes nothing.
C16_GetPathsUnknownKeyOrOnePath ==
    call.op = "get_paths" =>
      /\ domains = call.pre
      /\ IF ~Present(call.pre, call.d, call.k)
         THEN /\ ~call.res.ok
              /\ call.res.err = "unknown_key"
              /\ call.res.val = <<call.k>>
              /\ Tracker_get_paths(call.res).err = "unknown_key"
         ELSE /\ call.res.ok
              /\ Len(call.res.val) = 1
              /\ call.res.val[1] = create_open(call.pre, call.d, call.k).val.paths[1].url
              /\ call.res.val[1] = StorageUrl(call.d, call.k)
              /\ HasArg(Tracker_get_paths(call.res), "paths", 1)
              /\ HasArg(Tracker_get_paths(call.res), "path1", call.res.val[1])

C16_Witness ==
    /\ call.op = "get_paths"
    /\ call.pre # EmptyMap
    /\ call.d \notin DOMAIN call.pre
    /\ call.res.err = "unknown_key"

\* C17: file_info on a key that is present but reserved returns the error
\* no_content; on an absent key it returns unknown_key.
C17_FileInfoReservedIsNoContent ==
    call.op = "file_info" =>
      IF ~Present(call.pre, call.d, call.k)
      THEN ~call.res.ok /\ call.res.err = "unknown_key"
      ELSE Reserved(files(call.pre, call.d)[call.k]) =>
             ~call.res.ok /\ call.res.err = "no_content"

\* C18: a successful rename moves the record: `to` then maps to the record
\* `from` had (same fid, content, size, mtime) with key field `to`, `from`
\* is absent, get_paths of `from` gives unknown_key and of `to` succeeds,
\* and every other key of the domain, and every other domain, is as before.
C18_RenameMovesRecord ==
    (call.op = "rename" /\ call.res.ok) =>
      LET old == files(call.pre, call.d)
          new == files(domains, call.d)
      IN  /\ call.k \in DOMAIN old
          /\ call.to \in DOMAIN new
          /\ new[call.to].fid = old[call.k].fid
          /\ new[call.to].content = old[call.k].content
          /\ new[call.to].size = old[call.k].size
          /\ new[call.to].mtime = old[call.k].mtime
          /\ new[call.to].key = call.to
          /\ call.k \notin DOMAIN new
          /\ get_paths(domains, call.d, call.k).err = "unknown_key"
          /\ get_paths(domains, call.d, call.to).ok
          /\ DOMAIN new = (DOMAIN old \ {call.k}) \cup {call.to}
          /\ \A k \in DOMAIN old \ {call.k} : new[k] = old[k]
          /\ DOMAIN domains = DOMAIN call.pre
          /\ \A d \in DOMAIN call.pre \ {call.d} : domains[d] = call.pre[d]

C18_Witness ==
    /\ call.op = "rename"
    /\ call.res.ok
    /\ Materialised(files(call.pre, call.d)[call.k])
    /\ Cardinality(DOMAIN files(call.pre, call.d)) = 2
    /\ Materialised(files(domains, call.d)[call.to])

Recreates(c, d, k) ==
    \/ c.op = "create_open" /\ c.d = d /\ c.k = k
    \/ c.op = "rename" /\ c.res.ok /\ c.d = d /\ c.to = k

\* C20: delete of a present key succeeds and removes exactly that key;
\* delete of an absent key returns unknown_key; once a key is absent,
\* get_paths and delete of it return unknown_key, and it stays absent until
\* a create_open of it or a successful rename to it.
C20_DeleteRemovesUntilRecreated ==
    /\ [](call.op = "delete" =>
            IF Present(call.pre, call.d, call.k)
            THEN /\ call.res.ok
                 /\ files(domains, call.d) = MapRemove(files(call.pre, call.d), call.k)
                 /\ DOMAIN domains = DOMAIN call.pre
                 /\ \A d \in DOMAIN call.pre \ {call.d} : domains[d] = call.pre[d]
                 /\ get_paths(domains, call.d, call.k).err = "unknown_key"
                 /\ delete(domains, call.d, call.k).err = "unknown_key"
            ELSE /\ ~call.res.ok
                 /\ call.res.err = "unknown_key"
                 /\ files(domains, call.d) = files(call.pre, call.d))
    /\ [][\A d \in BDomains : \A k \in BKeys(d) :
            (~Present(domains, d, k) /\ ~Recreates(call', d, k)) =>
              /\ ~Present(domains', d, k)
              /\ get_paths(domains', d, k).err = "unknown_key"
              /\ delete(domains', d, k).err = "unknown_key"]_vars

C20_Witness ==
    /\ call.op = "delete"
    /\ Present(call.pre, call.d, call.k)
    /\ Cardinality(DOMAIN files(call.pre, call.d)) = 3
    /\ call.res.ok
    /\ ~Present(domains, call.d, call.k)

(***************************************************************************)
(* Properties of list_keys                                                 *)
(***************************************************************************)
KeysOf(b, d) == DOMAIN files(b, d)
LexLess(a, b) == a # b /\ LexLeq(a, b)
Ascending(seq) == \A i \in 1..Len(seq) : \A j \in 1..Len(seq) : i < j => LexLess(seq[i], seq[j])
RangeOf(seq) == {seq[i] : i \in 1..Len(seq)}

\* the keys a request asks for: those that start with the prefix and are
\* greater than after, an absent prefix or after restricting nothing
Wanted(keys, prefix, after) ==
    {k \in keys : /\ prefix = <<>> \/ starts_with(k, prefix[1])
                  /\ after = <<>> \/ LexLess(after[1], k)}

\* seq is the first n elements of the ascending sequence of the set
FirstOf(seq, set, n) ==
    /\ Ascending(seq)
    /\ RangeOf(seq) \subseteq set
    /\ Len(seq) = (IF n < Cardinality(set) THEN n ELSE Cardinality(set))
    /\ \A k \in set \ RangeOf(seq) : \A i \in 1..Len(seq) : LexLess(seq[i], k)

\* C21: for every domain, prefix, after and limit, list_keys returns exactly
\* the first `limit` keys, in ascending bytewise order, of the keys of the
\* domain that start with prefix and are strictly greater than after, an
\* absent prefix or after meaning no restriction.
C21_ListKeysFirstMatching ==
    call.op = "list_keys" =>
      /\ call.res.ok
      /\ FirstOf(call.res.val,
                 Wanted(KeysOf(domains, call.d), call.prefix, call.after),
                 unwrap_or(call.limit, DefaultLimit))

\* C22: when paging with next_after has ended, the last page is empty and
\* the concatenation of the pages is strictly ascending, so without
\* duplicates, and is the full ordered list of the keys matching the prefix.
C22_PagingYieldsAllMatching ==
    pager.pc = "done" =>
      LET all == Flatten(pager.pages)
      IN  /\ pager.pages[Len(pager.pages)] = <<>>
          /\ Ascending(all)
          /\ RangeOf(all) = Wanted(KeysOf(domains, "td"), pager.prefix, <<>>)

\* C23: a list_keys response never holds more than 1000 keys: the number of
\* keys the dispatcher lets the backend take is 1000 for an absent or
\* unparsable limit and at most 1000 for every requested limit.
C23_AtMostThousandKeys ==
    call.op = "tracker_list_keys" =>
      LET bound == unwrap_or(TrackerLimit(call.args), DefaultLimit)
      IN  /\ call.resp.key_count <= 1000
          /\ (call.args.limit = <<>> \/ call.args.limit = <<Unparsable>>) => bound = 1000
          /\ bound <= 1000

\* C24: for a list_keys request with a prefix argument handled by the
\* dispatcher, every key of the response starts with the prefix, key_count
\* is the number of keys, and next_after is there exactly when the result
\* is not empty and is then the last key.
C24_DispatcherHonoursPrefix ==
    (call.op = "tracker_list_keys" /\ call.args.prefix # <<>>) =>
      /\ call.resp.ok
      /\ \A i \in 1..Len(call.resp.key) :
            starts_with(call.resp.key[i], call.args.prefix[1])
      /\ call.resp.key_count = Len(call.resp.key)
      /\ (call.resp.next_after # <<>>) <=> (call.resp.key # <<>>)
      /\ call.resp.key # <<>> =>
            call.resp.next_after = <<call.resp.key[Len(call.resp.key)]>>

(***************************************************************************)
(* Properties of the dispatcher                                            *)
(***************************************************************************)
NeedsDomain == {"create_domain", "create_open", "create_close", "get_paths",
                "file_info", "delete", "rename", "list_keys"}
NeedsKey == {"create_open", "create_close", "get_paths", "file_info", "delete"}
MissingOrEmpty(arg) == arg = <<>> \/ arg = <<"">>
RefusedWith(c, kind) ==
    /\ ~c.res.ok
    /\ c.res.err = kind
    /\ ~c.res.called
    /\ c.res.b = c.pre

\* C25: a request of an operation that requires a domain, with the domain
\* argument missing or empty, yields no_domain; with a domain but, for an
\* operation that requires a key, the key missing or empty, it yields
\* no_key; in both cases no backend method is called and the backend is as
\* before.
C25_MissingOrEmptyArgsRefused ==
    call.op = "handle" =>
      /\ (call.cmd \in NeedsDomain /\ MissingOrEmpty(call.args.domain)) =>
            RefusedWith(call, "no_domain")
      /\ (call.cmd \in NeedsKey /\ ~MissingOrEmpty(call.args.domain)
                               /\ MissingOrEmpty(call.args.key)) =>
            RefusedWith(call, "no_key")

(***************************************************************************)
(* Properties of the connection handler                                    *)
(***************************************************************************)
KnownOps == {<<"create_open">>, <<"noop">>}
\* the OP of a line as sent: the bytes before the first space, without the
\* carriage return that ends the line
OpOf(l) == LET i == IndexOf(pop_cr(l), SP, 1)
           IN  IF i = 0 THEN pop_cr(l) ELSE SubSeq(pop_cr(l), 1, i - 1)
Parsable(l) == OpOf(l) \in KnownOps
Answers(h) == [i \in 1..Len(h.out) |-> h.out[i].resp]

\* C26: every line a handler has taken has exactly one response once the
\* handler is back at reading (and none is answered twice); the response to
\* a line whose OP is not a known operation is ERR unknown_command or ERR
\* utf8, produced without calling the backend and leaving it unchanged; and
\* the step that writes a response takes the handler back to reading.
C26_EveryLineAnsweredOnce ==
    /\ [](\A c \in DOMAIN conns :
            LET h == conns[c]
            IN  /\ h.pc = "read" => Len(h.out) = h.nread
                /\ h.pc \in {"handle", "write"} => Len(h.out) = h.nread - 1
                /\ Len(h.out) <= h.nread
                /\ \A i \in 1..Len(h.out) :
                     ~Parsable(h.input[i]) =>
                        /\ ~Answers(h)[i].ok
                        /\ Answers(h)[i].err \in {"unknown_command", "utf8"}
                        /\ ~Answers(h)[i].called
                        /\ Answers(h)[i].unchanged)
    /\ [][\A c \in DOMAIN conns :
            Len(conns'[c].out) > Len(conns[c].out) =>
               /\ Len(conns'[c].out) = Len(conns[c].out) + 1
               /\ conns'[c].pc = "read"]_vars

\* a handler has answered an unparsable line with ERR and then answered
\* the next line on the same connection
C26_Witness ==
    \E c \in DOMAIN conns :
      /\ Len(conns[c].out) >= 2
      /\ ~Parsable(conns[c].input[1])
      /\ ~conns[c].out[1].resp.ok
      /\ conns[c].out[2].resp.ok

\* C27: on every connection the i-th response written answers the i-th
\* line received, and a line is read and dispatched only when the
\* responses to all earlier lines have been written.
C27_InOrderAlternation ==
    \A c \in DOMAIN conns :
      LET h == conns[c]
      IN  /\ \A i \in 1..Len(h.out) : h.out[i].line = pop_cr(h.input[i])
          /\ h.ndispatched \in {Len(h.out), Len(h.out) + 1}
          /\ h.nread \in {Len(h.out), Len(h.out) + 1}
          /\ h.ndispatched <= h.nread
          /\ h.pc = "handle" => (h.ndispatched = Len(h.out) /\ h.nread = Len(h.out) + 1)
          /\ h.pc = "write" => h.ndispatched = Len(h.out) + 1

\* a client had two different lines in flight before the first response
\* was written, and both have been answered
C27_Witness ==
    \E c \in DOMAIN conns :
      /\ Len(conns[c].out) = 2
      /\ conns[c].input[1] # conns[c].input[2]
      /\ conns[c].out[1].resp # conns[c].out[2].resp

(***************************************************************************)
(* Properties of the shared backend's lock                                 *)
(***************************************************************************)
InIo(t) == threads[t].pc \in {"reading", "writing"}

\* C28: a thread holds the lock only inside a backend operation (not
\* before the call, not while waiting, not after the return, whatever the
\* result), and no thread holds it while it is in I/O on its reader or
\* writer.
C28_LockNotHeldAcrossIo ==
    \A t \in DOMAIN threads :
      /\ threads[t].pc \in {"idle", "waiting"} => ~Holds(lock, t)
      /\ InIo(t) => ~Holds(lock, t)

\* C29: the result a method is about to return is the result of the same
\* call made on the backend as left by the operations that returned before
\* it, in the order they returned, and whenever no writer is inside, the
\* backend is that sequential backend; no reader is inside the lock while
\* a rename is between its remove and its insert.
C29_OperationsAtomic ==
    /\ \A t \in DOMAIN threads :
         /\ threads[t].pc = "returning" =>
              threads[t].res[1] = ResultOf(MemBackend_call(threads[t].op, lin, threads[t].data))
         /\ threads[t].pc = "half" =>
              \A u \in DOMAIN threads : u # t => threads[u].pc \in {"idle", "waiting"}
    /\ (threads # <<>> /\ lock.writer = "none") => domains = lin

\* a rename has succeeded under the write lock while another thread waits
\* to read one of the two keys
C29_Witness ==
    \E t \in DOMAIN threads, u \in DOMAIN threads :
      /\ threads[t].pc = "returning"
      /\ threads[t].op.name = "rename"
      /\ threads[t].res[1].ok
      /\ threads[u].pc = "waiting"
      /\ threads[u].op.name \in ReadOps
      /\ threads[u].op.k \in {threads[t].op.k, threads[t].op.to}

(***************************************************************************)
(* Properties of the client's metrics                                      *)
(***************************************************************************)
RequestOver == pc = "idle" /\ nreq > 0

\* C30 as claimed: with a sink, a finished request that made n attempts
\* has incremented the counter n times and recorded the timer once;
\* without a sink nothing is recorded.
C30_CounterPerAttempt ==
    /\ (stats.sink /\ RequestOver) =>
          /\ stats.incr - stats.base = Len(attempts)
          /\ stats.timer = nreq
    /\ ~stats.sink => stats = NoStats

\* C30 as the code has it: with a sink, the counter is incremented once
\* per logical request, when the request begins and whatever the number of
\* attempts, and the timer is recorded once per logical request, when the
\* retry loop is over; without a sink nothing is recorded.
C30_CounterPerRequest ==
    /\ stats.sink =>
          /\ stats.incr = nreq
          /\ nreq > 0 => stats.incr - stats.base = 1
          /\ stats.timer = IF pc = "idle" THEN nreq ELSE nreq - 1
    /\ ~stats.sink => stats = NoStats

\* with a sink, a request that needed more than one attempt is over
C30_Witness ==
    /\ stats.sink
    /\ RequestOver
    /\ Len(attempts) > 1
    /\ stats.incr - stats.base = 1
    /\ stats.timer = nreq

(***************************************************************************)
(* Properties of the response buffer                                       *)
(***************************************************************************)
\* C35: when the retry loop is over without an error to surface, the
\* response line about to be parsed is exactly the bytes that the final
\* attempt read.
C35_ParsedLineIsFinalAttempt ==
    (pc = "harvest" /\ take_err(cur).err = NoErr) =>
       resp_line = Last(attempts).bytes

(***************************************************************************)
(* Properties of a retried request                                         *)
(***************************************************************************)
\* C31: the backend applies one logical request at most three times; once
\* the tracker has handled a create_domain at least once the backend is as
\* after a single application to the state the request found; and a
\* caller that receives domain_exists for a domain that was absent when
\* the request began had an earlier attempt of this request create it.
C31_ResentRequestApplied ==
    rq.pc # "idle" =>
      /\ rq.applied <= 3
      /\ rq.applied <= rq.tries
      /\ rq.applied >= 1 => domains = create_domain(rq.pre, rq.domain).b
      /\ rq.applied = 0 => domains = rq.pre
      /\ (rq.result = "domain_exists" /\ rq.domain \notin DOMAIN rq.pre) =>
            rq.applied >= 2

\* the request created its domain, lost two responses, was applied a third
\* time and answered domain_exists
C31_Witness ==
    /\ rq.pc = "done"
    /\ rq.domain \notin DOMAIN rq.pre
    /\ rq.applied = 3
    /\ rq.result = "domain_exists"
    /\ domains = create_domain(rq.pre, rq.domain).b

(***************************************************************************)
(* Frame properties and invariants of the backend                          *)
(***************************************************************************)
EmptySuccessOps == {"create_close", "tracker_create_close", "tracker_updateclass"}
ReadOnlyOps == {"get_paths", "file_info", "list_keys", "file_metadata", "get_content"}
FailableWrites == {"delete", "rename", "store"}
\* the last call found the file reserved and left it materialised
BecameMaterialised(d, k) ==
    /\ Present(call.pre, d, k) /\ Reserved(files(call.pre, d)[k])
    /\ Present(domains, d, k) /\ Materialised(files(domains, d)[k])

\* C32: create_close (of the backend and of the dispatcher) and updateclass
\* answer an empty success and leave the backend as it was, whatever the
\* arguments and whatever the state of the file; and a call that finds a
\* file reserved and leaves it materialised is a storage write.
C32_CreateCloseNoEffect ==
    /\ call.op \in EmptySuccessOps =>
         /\ call.res.ok
         /\ call.res.b = call.pre
         /\ domains = call.pre
         /\ call.op = "create_close" => call.res.val = <<>>
         /\ call.op # "create_close" => (call.res.args = <<>> /\ ~call.res.called)
    /\ call.op # "none" =>
         \A d \in BDomains : \A k \in BKeys(d) :
           BecameMaterialised(d, k) => call.op = "store"

\* create_close is answered with success on a file that is still reserved
C32_Witness ==
    /\ call.op = "create_close"
    /\ call.res.ok
    /\ Present(domains, call.d, call.k)
    /\ Reserved(files(domains, call.d)[call.k])

\* C33: a delete, rename or store_bytes_content that returns an error
\* leaves the backend as it was; if its domain was never created, a
\* create_domain of that name still succeeds afterwards and a create_open
\* returns the fid it would have returned before.
C33_FailedWriteNoEffect ==
    (call.op \in FailableWrites /\ ~call.res.ok) =>
      /\ call.res.err \in {"unknown_key", "key_exists"}
      /\ domains = call.pre
      /\ call.d \notin DOMAIN call.pre =>
            /\ create_domain(domains, call.d).ok
            /\ create_open(domains, call.d, call.k).val.fid
                 = create_open(call.pre, call.d, call.k).val.fid

C36_ReservedOrMaterialised ==
    /\ \A d \in DOMAIN domains : \A k \in DOMAIN domains[d].files :
         LET f == domains[d].files[k]
         IN  \/ Reserved(f)
             \/ Materialised(f) /\ f.size[1] = Len(f.content[1])
    /\ call.op = "store" =>
         IF Present(call.pre, call.d, call.k)
         THEN /\ call.res.ok
              /\ Materialised(files(domains, call.d)[call.k])
         ELSE /\ ~call.res.ok
              /\ call.res.err = "unknown_key"
              /\ ~Present(domains, call.d, call.k)

\* a reserved file has just been materialised while another file of the
\* backend is still reserved
C36_Witness ==
    /\ call.op = "store"
    /\ call.res.ok
    /\ Reserved(files(call.pre, call.d)[call.k])
    /\ \E d \in DOMAIN domains : \E k \in DOMAIN domains[d].files :
         Reserved(domains[d].files[k])

\* C37: every file's key field is the key it is stored under, and every
\* domain's name is the name it is registered under.
C37_KeysAndNamesAgree ==
    \A d \in DOMAIN domains :
      /\ domains[d].name = d
      /\ \A k \in DOMAIN domains[d].files : domains[d].files[k].key = k

\* a rename has just moved a file while a second domain is registered
C37_Witness ==
    /\ call.op = "rename"
    /\ call.res.ok
    /\ files(domains, call.d)[call.to].key = call.to
    /\ Cardinality(DOMAIN domains) = 2

(***************************************************************************)
(* Properties of the handler at end of file                                *)
(***************************************************************************)
\* C38: the bytes a client left unterminated when it closed are never read
\* as a request line: the handler has dispatched, and answered, only
\* lines that ended in a newline.
C38_OnlyCompleteLinesDispatched ==
    \A c \in DOMAIN conns :
      conns[c].unterminated =>
        /\ conns[c].nread < Len(conns[c].input)
        /\ conns[c].ndispatched < Len(conns[c].input)
        /\ Len(conns[c].out) < Len(conns[c].input)

=============================================================================
